---------------------------- MODULE Spec2Model ----------------------------
(***************************************************************************)
(* A model of exchangelib/folders/base.py: the folder entity (BaseFolder,  *)
(* Folder), its mutation protocol (save, delete, empty, wipe), resolve()   *)
(* and the item sync generator.  The EWS services and the Root cache are   *)
(* collaborators: a service call is a nondeterministic outcome, the Root   *)
(* cache is a map from folder id to the cached folder.                     *)
(***************************************************************************)
EXTENDS Integers, Sequences, FiniteSets, TLC

(***************************************************************************)
(* Bounds of the model.                                                    *)
(***************************************************************************)
NumObjs == 2        \* local Folder instances of the mutation protocol
MaxId == 5          \* folder ids the server hands out: 1..MaxId
InitFolders == 2    \* folders the server holds before the first call
MaxCk == 2          \* changekeys: 1..MaxCk

NoId == 0           \* None, as an id, a changekey or a parent reference
Ids == 1..MaxId
Objs == 1..NumObjs
Changekeys == 1..MaxCk

VARIABLES
    srvParent,      \* server: existing folder id -> id of its parent folder (NoId: top)
    srvDist,        \* server: the ids of its distinguished folders
    nextId,         \* server: the id the next CreateFolder returns
    cache,          \* Root cache: [valid, map: id -> [obj, parent, dist]]
    objId,          \* Folder instance -> _id.id (NoId: transient or detached)
    objCk,          \* Folder instance -> _id.changekey
    objParent,      \* Folder instance -> parent_folder_id.id
    objDist,        \* Folder instance -> is_distinguished
    objClassSet,    \* Folder instance -> folder_class is not None
    lastOp,         \* the last call made on a Folder instance, and how it ended
    knownDist,      \* the distinguished folders a fetch flags is_distinguished
    wStatus,        \* wipe(): "idle", "running", "done" (returned) or "failed" (raised)
    wError,         \* wipe(): the exception the outermost call raised
    exc,            \* wipe(): the exception propagating up the call stack
    stack,          \* wipe(): the activation records of the recursion, innermost last
    seen,           \* wipe(): _seen
    wLog,           \* wipe(): what the call has done so far (see WipeLog0)
    item_sync_state,    \* the folder's item sync state
    folder_sync_state,  \* the folder's hierarchy sync state
    hgen,           \* the sync_hierarchy() generator made on the folder
    gens,           \* the sync_items() generators made on the folder
    lastSync,       \* what the query layer saw and did at the last generator step
    rFolders,       \* resolve(): what the query layer yields
    rCls,           \* resolve(): the class resolve() is called on
    rResult,        \* resolve(): how the call ended
    names,          \* navigation: folder id -> the folder's name
    nav,            \* navigation: the last call of glob(), parts or parent
    evGen,          \* the get_events() generator
    stGen           \* the get_streaming_events() generator

srvVars == <<srvParent, srvDist, nextId>>
lifeVars == <<objId, objCk, objParent, objDist, objClassSet, lastOp>>
wipeVars == <<knownDist, wStatus, wError, exc, stack, seen, wLog>>
syncVars == <<item_sync_state, folder_sync_state, gens, hgen, lastSync>>
resolveVars == <<rFolders, rCls, rResult>>
navVars == <<names, nav>>
eventVars == <<evGen, stGen>>
vars == <<srvVars, cache, lifeVars, wipeVars, syncVars, resolveVars, navVars, eventVars>>

(***************************************************************************)
(* Helpers on functions.                                                   *)
(***************************************************************************)
Put(f, k, v) == [x \in DOMAIN f \cup {k} |-> IF x = k THEN v ELSE f[x]]
Drop(f, S) == [x \in DOMAIN f \ S |-> f[x]]
EmptyMap == [x \in {} |-> NoId]

(***************************************************************************)
(* The server's folder hierarchy.                                          *)
(***************************************************************************)
RECURSIVE SrvDescendantsFrom(_, _)
SrvDescendantsFrom(parent, S) ==
    LET kids == {c \in DOMAIN parent : parent[c] \in S /\ c \notin S}
    IN  IF kids = {} THEN S ELSE SrvDescendantsFrom(parent, S \cup kids)

\* The folders the server holds before the first call: a chain.
InitSrvParent == [i \in 1..InitFolders |-> i - 1]

\* The folders below f on the server, f itself not included.
SrvSubtree(parent, f) == SrvDescendantsFrom(parent, {f}) \ {f}

(***************************************************************************)
(* The Root cache (roots.py): a map keyed by folder id.                    *)
(***************************************************************************)
\* What a fetch of the whole hierarchy stores: one fetched folder per server folder.
Fetched(parent, known) ==
    [valid |-> TRUE,
     map |-> [i \in DOMAIN parent |-> [obj |-> 0, parent |-> parent[i], dist |-> i \in known]]]

CacheIds(c) == DOMAIN c.map

\* root.get_folder(folder_id): the cached folder, NoId when there is none.
GetFolder(c, id) == IF id \in CacheIds(c) THEN id ELSE NoId

\* root.add_folder(f), root.update_folder(f): the entry of f.id is f.
AddFolder(c, id, o, par, dist) ==
    [c EXCEPT !.map = Put(c.map, id, [obj |-> o, parent |-> par, dist |-> dist])]

UpdateFolderInCache(c, id, o, par, dist) == AddFolder(c, id, o, par, dist)

\* root.remove_folder(f): keyed by the id f carries when it is called.
RemoveFolder(c, id) == [c EXCEPT !.map = Drop(c.map, {id})]

\* root.clear_cache()
ClearCache(c) == [valid |-> FALSE, map |-> EmptyMap]

(***************************************************************************)
(* Folder fields (FIELDS, Folder.LOCAL_FIELDS).                            *)
(***************************************************************************)
FIELDS ==
    << [name |-> "_id", read_only |-> FALSE, required_after_save |-> FALSE],
       [name |-> "parent_folder_id", read_only |-> TRUE, required_after_save |-> FALSE],
       [name |-> "folder_class", read_only |-> FALSE, required_after_save |-> TRUE],
       [name |-> "name", read_only |-> FALSE, required_after_save |-> FALSE],
       [name |-> "total_count", read_only |-> TRUE, required_after_save |-> FALSE],
       [name |-> "child_folder_count", read_only |-> TRUE, required_after_save |-> FALSE],
       [name |-> "unread_count", read_only |-> TRUE, required_after_save |-> FALSE],
       [name |-> "permission_set", read_only |-> FALSE, required_after_save |-> FALSE],
       [name |-> "effective_rights", read_only |-> TRUE, required_after_save |-> FALSE] >>

\* save(): the fields an update without update_fields sends.
AutoUpdateFields(classSet) ==
    {FIELDS[i].name : i \in {j \in 1..Len(FIELDS) :
        /\ ~FIELDS[j].read_only
        /\ ~(FIELDS[j].required_after_save /\ FIELDS[j].name = "folder_class" /\ ~classSet)}}

\* The update_fields arguments tried: None, an empty list, two field lists.
UpdateFieldArgs == {{}, {"name"}, {"name", "folder_class"}}

DELETE_TYPE_CHOICES == {"HardDelete", "SoftDelete", "MoveToDeletedItems"}
HARD_DELETE == "HardDelete"
DeleteTypeArgs == {"HardDelete", "MoveToDeletedItems", "Recycle"}

\* The schema fields of a folder the model follows: _id (id and changekey),
\* parent_folder_id and whether folder_class is set.
NoFresh == [id |-> NoId, ck |-> NoId, parent |-> NoId, classSet |-> FALSE]

\* The record of a call: its argument, how it ended, the service calls it issued, the
\* field list it sent, the id and the changekey the service returned (the changekey
\* is recorded for UpdateFolder only) and the folder refresh() resolved.
Op(op, o, arg, res, calls, fields, rid) ==
    [op |-> op, obj |-> o, arg |-> arg, res |-> res, calls |-> calls, fields |-> fields,
     rid |-> rid, rck |-> NoId, fresh |-> NoFresh]

NoOp == Op("none", 0, {}, "none", <<>>, {}, NoId)

\* A check that looks for one field instead of any.
TruthyOnlyClass(update_fields) == "folder_class" \in update_fields

\* `if update_fields:`
Truthy(update_fields) == update_fields # {}

\* Folder.parent of a local instance
Parent(c, o) ==
    IF objParent[o] = NoId THEN NoId
    ELSE IF objParent[o] = objId[o] THEN NoId
    ELSE GetFolder(c, objParent[o])

(***************************************************************************)
(* BaseFolder.save()                                                       *)
(***************************************************************************)
\* The folder is added to the cache before its _id is set.
SaveCreatedAddFirst(o, id, ck) ==
    /\ cache' = AddFolder(cache, objId[o], o, objParent[o], objDist[o])
    /\ objId' = [objId EXCEPT ![o] = id]
    /\ objCk' = [objCk EXCEPT ![o] = ck]

\* The new folder: _id is set from the response, then the folder is added to the cache.
SaveCreated(o, id, ck) ==
    /\ objId' = [objId EXCEPT ![o] = id]
    /\ objCk' = [objCk EXCEPT ![o] = ck]
    /\ cache' = AddFolder(cache, id, o, objParent[o], objDist[o])

\* A check that accepts any returned id.
IdMismatchNever(id, folder_id) == FALSE

\* `if self.id != folder_id: raise ValueError('ID mismatch')`
IdMismatch(id, folder_id) == id # folder_id

\* The updated folder: the changekey is set, then the cache entry is updated.
SaveUpdated(o, ck) ==
    /\ objCk' = [objCk EXCEPT ![o] = ck]
    /\ cache' = UpdateFolderInCache(cache, objId[o], o, objParent[o], objDist[o])
    /\ UNCHANGED objId

Save(o, update_fields) ==
    IF objId[o] = NoId
    THEN IF Truthy(update_fields)
         THEN \* 'update_fields' is only valid for updates
              /\ lastOp' = Op("save", o, update_fields, "ValueError", <<>>, update_fields, NoId)
              /\ UNCHANGED <<srvVars, cache, objId, objCk, objParent, objDist, objClassSet>>
         ELSE \E ok \in BOOLEAN, ck \in Changekeys :
                IF ok /\ nextId <= MaxId
                THEN /\ srvParent' = Put(srvParent, nextId, Parent(cache, o))
                     /\ nextId' = nextId + 1
                     /\ SaveCreated(o, nextId, ck)
                     /\ lastOp' = Op("save", o, update_fields, "created", <<"CreateFolder">>, {}, nextId)
                     /\ UNCHANGED <<srvDist, objParent, objDist, objClassSet>>
                ELSE /\ lastOp' = Op("save", o, update_fields, "ServiceError", <<"CreateFolder">>, {}, NoId)
                     /\ UNCHANGED <<srvVars, cache, objId, objCk, objParent, objDist,
                                    objClassSet>>
    ELSE LET fields == IF ~Truthy(update_fields) THEN AutoUpdateFields(objClassSet[o])
                       ELSE update_fields
         IN  \E ok \in BOOLEAN, rid \in {objId[o], nextId}, ck \in Changekeys :
                IF ~ok
                THEN /\ lastOp' = Op("save", o, update_fields, "ServiceError", <<"UpdateFolder">>, fields, NoId)
                     /\ UNCHANGED <<srvVars, cache, objId, objCk, objParent, objDist,
                                    objClassSet>>
                ELSE IF IdMismatch(objId[o], rid)
                THEN \* ID mismatch
                     /\ lastOp' = [Op("save", o, update_fields, "ValueError",
                                      <<"UpdateFolder">>, fields, rid) EXCEPT !.rck = ck]
                     /\ UNCHANGED <<srvVars, cache, objId, objCk, objParent, objDist,
                                    objClassSet>>
                ELSE /\ SaveUpdated(o, ck)
                     /\ lastOp' = [Op("save", o, update_fields, "updated",
                                      <<"UpdateFolder">>, fields, rid) EXCEPT !.rck = ck]
                     /\ UNCHANGED <<srvVars, objParent, objDist, objClassSet>>

(***************************************************************************)
(* BaseFolder.delete()                                                     *)
(***************************************************************************)
\* DeleteFolder on the server: the folder and what is below it are gone.
SrvDelete(parent, id) == Drop(parent, SrvDescendantsFrom(parent, {id}))

\* What DeleteFolder may answer for a folder reference.
DeleteFolderOutcomes(id) ==
    IF id \notin DOMAIN srvParent THEN {"ErrorFolderNotFound"}
    ELSE IF id \in srvDist THEN {"ErrorDeleteDistinguishedFolder", "ErrorAccessDenied"}
    ELSE {"ok", "ErrorAccessDenied"}

\* The _id is cleared before the folder is removed from the cache.
DeletedClearFirst(o) ==
    /\ objId' = [objId EXCEPT ![o] = NoId]
    /\ objCk' = [objCk EXCEPT ![o] = NoId]
    /\ cache' = RemoveFolder(cache, objId'[o])

\* The _id is cleared and the cache is left alone.
DeletedKeepsEntry(o) ==
    /\ objId' = [objId EXCEPT ![o] = NoId]
    /\ objCk' = [objCk EXCEPT ![o] = NoId]
    /\ UNCHANGED cache

\* The folder is removed from the cache, then its _id is cleared.
Deleted(o) ==
    /\ cache' = RemoveFolder(cache, objId[o])
    /\ objId' = [objId EXCEPT ![o] = NoId]
    /\ objCk' = [objCk EXCEPT ![o] = NoId]

Delete(o, delete_type) ==
    IF delete_type \notin DELETE_TYPE_CHOICES
    THEN /\ lastOp' = Op("delete", o, delete_type, "ValueError", <<>>, {}, NoId)
         /\ UNCHANGED <<srvVars, cache, objId, objCk, objParent, objDist, objClassSet>>
    ELSE \E out \in DeleteFolderOutcomes(objId[o]) :
            IF out = "ok"
            THEN /\ srvParent' = SrvDelete(srvParent, objId[o])
                 /\ Deleted(o)
                 /\ lastOp' = Op("delete", o, delete_type, "deleted", <<"DeleteFolder">>, {}, NoId)
                 /\ UNCHANGED <<srvDist, nextId, objParent, objDist, objClassSet>>
            ELSE /\ lastOp' = Op("delete", o, delete_type, out, <<"DeleteFolder">>, {}, NoId)
                 /\ UNCHANGED <<srvVars, cache, objId, objCk, objParent, objDist,
                                objClassSet>>

(***************************************************************************)
(* BaseFolder.sync_items(): a generator over the query layer's sequence,   *)
(* which ends by raising SyncCompleted.                                    *)
(***************************************************************************)
NumGens == 2        \* generators made on the folder
MaxChanges == 1     \* changes a generator yields before the model stops counting

Gens == 1..NumGens

\* Sync states: None, the empty string, and two states the server hands out.
None == "None"
ServerStates == {"S1", "S2"}
SyncStateArgs == {None, "", "S1", "S2"}

\* `not sync_state`
Not(sync_state) == sync_state \in {None, ""}

\* A generator: where it is, its local sync_state, the changes it has yielded. A
\* generator that has ended has no frame.
NoGen == [st |-> "unborn", sync_state |-> None, yielded |-> 0]
Ended(st) == [st |-> st, sync_state |-> None, yielded |-> 0]

\* The query layer at a generator step: the generator, what the step was, the state
\* FolderCollection.sync_items() was called with at this step and the sync_state the
\* generator had been made with (Unasked if the query layer was not called at this
\* step), the state its completion signal carried, and the state the latest
\* completion signal so far carried.
Unasked == "-"
SyncEvent(g, event, asked, cursor) ==
    [g |-> g, event |-> event, asked |-> asked,
     supplied |-> IF asked = Unasked THEN Unasked ELSE gens[g].sync_state,
     cursor |-> cursor,
     completed |-> IF event = "SyncCompleted" THEN cursor ELSE lastSync.completed]

NoSyncEvent == [g |-> 0, event |-> "none", asked |-> Unasked, supplied |-> Unasked,
                cursor |-> None, completed |-> None]

SyncIdle ==
    /\ item_sync_state = None
    /\ folder_sync_state = None
    /\ gens = [g \in Gens |-> NoGen]
    /\ hgen = NoGen
    /\ lastSync = NoSyncEvent

\* A variant that presents the stored state whatever the caller supplies.
PresentedStateIgnoresArg(sync_state, stored) == stored

\* `if not sync_state: sync_state = self.item_sync_state`
PresentedState(sync_state, stored) == IF Not(sync_state) THEN stored ELSE sync_state

\* A variant that swallows the completion signal without storing its state.
StoreCompletedDropped(sync_state) == UNCHANGED item_sync_state

\* `except SyncCompleted as e: self.item_sync_state = e.sync_state`
StoreCompleted(sync_state) == item_sync_state' = sync_state

\* folder.sync_items(sync_state): the generator is made; its body has not run.
\* Generators are numbered in the order they are made.
SyncCall(g, sync_state) ==
    /\ gens[g].st = "unborn"
    /\ \A h \in Gens : h < g => gens[h].st # "unborn"
    /\ gens' = [gens EXCEPT ![g] = [NoGen EXCEPT !.st = "created", !.sync_state = sync_state]]
    /\ lastSync' = SyncEvent(g, "call", Unasked, None)
    /\ UNCHANGED <<item_sync_state, folder_sync_state, hgen>>

\* next(generator), answered by the query layer's sequence with `out`: a change, the
\* completion signal with a new state, another error, or its plain end. The first
\* next() runs the body from its top.
SyncNext(g, out, new_state) ==
    /\ gens[g].st \in {"created", "running"}
    /\ LET gen == gens[g]
           first == gen.st = "created"
           presented == IF first THEN PresentedState(gen.sync_state, item_sync_state)
                        ELSE gen.sync_state
           asked == IF first THEN presented ELSE Unasked
       IN  CASE out = "change" ->
                  /\ gen.yielded < MaxChanges
                  /\ gens' = [gens EXCEPT ![g] = [st |-> "running", sync_state |-> presented,
                                                  yielded |-> gen.yielded + 1]]
                  /\ lastSync' = SyncEvent(g, out, asked, None)
                  /\ UNCHANGED item_sync_state
             [] out = "SyncCompleted" ->
                  /\ gens' = [gens EXCEPT ![g] = Ended("exhausted")]
                  /\ lastSync' = SyncEvent(g, out, asked, new_state)
                  /\ StoreCompleted(new_state)
             [] out = "error" ->
                  /\ gens' = [gens EXCEPT ![g] = Ended("raised")]
                  /\ lastSync' = SyncEvent(g, out, asked, None)
                  /\ UNCHANGED item_sync_state
             [] OTHER ->
                  /\ gens' = [gens EXCEPT ![g] = Ended("exhausted")]
                  /\ lastSync' = SyncEvent(g, out, asked, None)
                  /\ UNCHANGED item_sync_state
    /\ UNCHANGED <<folder_sync_state, hgen>>

\* The consumer stops early: generator.close(), or the generator is dropped.
SyncClose(g) ==
    /\ gens[g].st \in {"created", "running"}
    /\ gens' = [gens EXCEPT ![g] = Ended("closed")]
    /\ lastSync' = SyncEvent(g, "close", Unasked, None)
    /\ UNCHANGED <<item_sync_state, folder_sync_state, hgen>>

(***************************************************************************)
(* BaseFolder.sync_hierarchy(): the same shape over the folder changes.    *)
(***************************************************************************)
\* The hierarchy generator's number in the query layer's record.
HGen == 0

HSyncEvent(event, asked, cursor) ==
    [g |-> HGen, event |-> event, asked |-> asked,
     supplied |-> IF asked = Unasked THEN Unasked ELSE hgen.sync_state,
     cursor |-> cursor, completed |-> lastSync.completed]

\* `if not sync_state: sync_state = self.folder_sync_state`
PresentedFolderState(sync_state, stored) == IF Not(sync_state) THEN stored ELSE sync_state

\* A variant that stores the signalled state as the item sync state.
StoreFolderCompletedAsItem(sync_state) ==
    /\ item_sync_state' = sync_state
    /\ UNCHANGED folder_sync_state

\* `except SyncCompleted as e: self.folder_sync_state = e.sync_state`
StoreFolderCompleted(sync_state) ==
    /\ folder_sync_state' = sync_state
    /\ UNCHANGED item_sync_state

\* folder.sync_hierarchy(sync_state): the generator is made; its body has not run.
HSyncCall(sync_state) ==
    /\ hgen.st = "unborn"
    /\ hgen' = [NoGen EXCEPT !.st = "created", !.sync_state = sync_state]
    /\ lastSync' = HSyncEvent("call", Unasked, None)
    /\ UNCHANGED <<item_sync_state, folder_sync_state, gens>>

\* next(generator), answered by the query layer's sequence with `out`.
HSyncNext(out, new_state) ==
    /\ hgen.st \in {"created", "running"}
    /\ LET first == hgen.st = "created"
           presented == IF first THEN PresentedFolderState(hgen.sync_state, folder_sync_state)
                        ELSE hgen.sync_state
           asked == IF first THEN presented ELSE Unasked
       IN  CASE out = "change" ->
                  /\ hgen.yielded < MaxChanges
                  /\ hgen' = [st |-> "running", sync_state |-> presented,
                              yielded |-> hgen.yielded + 1]
                  /\ lastSync' = HSyncEvent(out, asked, None)
                  /\ UNCHANGED <<item_sync_state, folder_sync_state>>
             [] out = "SyncCompleted" ->
                  /\ hgen' = Ended("exhausted")
                  /\ lastSync' = HSyncEvent(out, asked, new_state)
                  /\ StoreFolderCompleted(new_state)
             [] out = "error" ->
                  /\ hgen' = Ended("raised")
                  /\ lastSync' = HSyncEvent(out, asked, None)
                  /\ UNCHANGED <<item_sync_state, folder_sync_state>>
             [] OTHER ->
                  /\ hgen' = Ended("exhausted")
                  /\ lastSync' = HSyncEvent(out, asked, None)
                  /\ UNCHANGED <<item_sync_state, folder_sync_state>>
    /\ UNCHANGED gens

\* The consumer stops early.
HSyncClose ==
    /\ hgen.st \in {"created", "running"}
    /\ hgen' = Ended("closed")
    /\ lastSync' = HSyncEvent("close", Unasked, None)
    /\ UNCHANGED <<item_sync_state, folder_sync_state, gens>>

(***************************************************************************)
(* BaseFolder.resolve()                                                    *)
(***************************************************************************)
MaxResults == 3     \* results the query layer yields for one folder

FolderClasses == {"Folder", "Calendar"}
Exceptions == {"ErrorAccessDenied", "ErrorFolderNotFound"}

\* What the query layer may yield: a folder of some class, or an exception object.
Results ==
    [kind : {"folder"}, value : FolderClasses] \cup [kind : {"exception"}, value : Exceptions]

ResolveIdle ==
    /\ rFolders = <<>>
    /\ rCls = "Folder"
    /\ rResult = [how |-> "none", what |-> "none"]

\* A variant that takes no result for an exception object.
IsExceptionNever(f) == FALSE

\* isinstance(f, Exception)
IsException(f) == f.kind = "exception"

\* cls.resolve(account, folder), the query layer yielding `folders`
Resolve(cls, folders) ==
    IF folders = <<>>
    THEN [how |-> "raise", what |-> "ErrorFolderNotFound"]
    ELSE IF Len(folders) # 1
    THEN [how |-> "raise", what |-> "ValueError: Expected result length 1"]
    ELSE IF IsException(folders[1])
    THEN [how |-> "raise", what |-> folders[1].value]
    ELSE IF folders[1].value # cls
    THEN [how |-> "raise", what |-> "ValueError: Expected folder to be an instance"]
    ELSE [how |-> "return", what |-> folders[1].value]

(***************************************************************************)
(* The methods decorated with @require_id, and BaseFolder.refresh().       *)
(***************************************************************************)
\* util.require_id: the decorated method runs only on a folder that has an id.
HasId(o) == objId[o] # NoId

\* The methods of a folder the model calls besides save(), delete() and refresh().
FolderOps ==
    {"get_user_configuration", "create_user_configuration", "update_user_configuration",
     "delete_user_configuration", "subscribe_to_pull", "subscribe_to_push",
     "subscribe_to_streaming", "unsubscribe"}

\* A class without the decorator on any method.
IdRequiredNowhere(op) == FALSE

\* The methods that carry @require_id: all of FolderOps but unsubscribe().
IdRequired(op) == op # "unsubscribe"

\* The service a method calls.
ServiceOf(op) ==
    CASE op = "get_user_configuration" -> "GetUserConfiguration"
      [] op = "create_user_configuration" -> "CreateUserConfiguration"
      [] op = "update_user_configuration" -> "UpdateUserConfiguration"
      [] op = "delete_user_configuration" -> "DeleteUserConfiguration"
      [] op = "subscribe_to_pull" -> "SubscribeToPull"
      [] op = "subscribe_to_push" -> "SubscribeToPush"
      [] op = "subscribe_to_streaming" -> "SubscribeToStreaming"
      [] OTHER -> "Unsubscribe"

\* folder.op(...): the service is called. No method changes the folder.
FolderOp(o, op) ==
    /\ IF IdRequired(op) /\ ~HasId(o)
       THEN lastOp' = Op(op, o, {}, "ValueError", <<>>, {}, NoId)
       ELSE lastOp' = Op(op, o, {}, "called", <<ServiceOf(op)>>, {}, NoId)
    /\ UNCHANGED <<srvVars, cache, objId, objCk, objParent, objDist, objClassSet>>

\* The class of the local instances.
InstanceClass == "Folder"

\* The folders the server may answer a refresh() of o with: the id of o or another one,
\* any changekey, a parent or none, folder_class set.
FreshFolders(o) ==
    [id : {objId[o], 1}, ck : Changekeys, parent : {NoId, 1}, classSet : {TRUE}]

\* What the query layer may yield to the resolve() of refresh(): nothing, an exception
\* object, one folder of the instance's class or of another class, or two folders.
RefreshResults(o) ==
    {<<>>}
    \cup {<<[kind |-> "exception", value |-> e, folder |-> NoFresh]>> : e \in Exceptions}
    \cup {<<[kind |-> "folder", value |-> InstanceClass, folder |-> f]>> :
             f \in FreshFolders(o)}
    \cup {<<[kind |-> "folder", value |-> c, folder |-> NoFresh]>> :
             c \in FolderClasses \ {InstanceClass}}
    \cup {<<[kind |-> "folder", value |-> InstanceClass, folder |-> NoFresh],
            [kind |-> "folder", value |-> InstanceClass, folder |-> NoFresh]>>}

\* A check that accepts any resolved id.
FreshIdMismatchNever(id, fresh_id) == FALSE

\* `if self.id != fresh_folder.id: raise ValueError('ID mismatch')`
FreshIdMismatch(id, fresh_id) == id # fresh_id

\* `for f in self.FIELDS: setattr(self, f.name, getattr(fresh_folder, f.name))`. The
\* cache holds the instance itself: its entry shows the new parent_folder_id.
Refreshed(o, fresh) ==
    /\ objId' = [objId EXCEPT ![o] = fresh.id]
    /\ objCk' = [objCk EXCEPT ![o] = fresh.ck]
    /\ objParent' = [objParent EXCEPT ![o] = fresh.parent]
    /\ objClassSet' = [objClassSet EXCEPT ![o] = fresh.classSet]
    /\ cache' = IF objId[o] \in CacheIds(cache) /\ cache.map[objId[o]].obj = o
                THEN [cache EXCEPT !.map[objId[o]].parent = fresh.parent]
                ELSE cache
    /\ UNCHANGED objDist

\* folder.refresh()
Refresh(o) ==
    /\ IF ~HasId(o)
       THEN /\ lastOp' = Op("refresh", o, {}, "ValueError", <<>>, {}, NoId)
            /\ UNCHANGED <<cache, objId, objCk, objParent, objDist, objClassSet>>
       ELSE \E folders \in RefreshResults(o) :
              LET r == Resolve(InstanceClass, folders)
              IN  IF r.how = "raise"
                  THEN /\ lastOp' = Op("refresh", o, {}, r.what, <<"GetFolder">>, {}, NoId)
                       /\ UNCHANGED <<cache, objId, objCk, objParent, objDist, objClassSet>>
                  ELSE IF FreshIdMismatch(objId[o], folders[1].folder.id)
                  THEN /\ lastOp' = [Op("refresh", o, {}, "ValueError", <<"GetFolder">>, {},
                                        folders[1].folder.id)
                                        EXCEPT !.fresh = folders[1].folder]
                       /\ UNCHANGED <<cache, objId, objCk, objParent, objDist, objClassSet>>
                  ELSE /\ lastOp' = [Op("refresh", o, {}, "refreshed", <<"GetFolder">>, {},
                                        folders[1].folder.id)
                                        EXCEPT !.fresh = folders[1].folder]
                       /\ Refreshed(o, folders[1].folder)
    /\ UNCHANGED srvVars

(***************************************************************************)
(* BaseFolder.get_events(), BaseFolder.get_streaming_events(): generators  *)
(* over the answers of GetEvents and of the GetStreamingEvents stream.     *)
(***************************************************************************)
MaxBatches == 3     \* notification batches the server sends to one generator

\* Watermarks are positions in the subscription's event stream: the subscription's own
\* watermark is FirstWatermark, the k-th batch carries the watermark FirstWatermark + k.
FirstWatermark == 0

\* get_events(): where the generator is, the next() calls it received, the GetEvents
\* calls it issued, the more_events flag of each batch it yielded, its watermark
\* argument, the watermark each call presented and the watermark each batch carried.
NoEvGen == [st |-> "unborn", nexts |-> 0, calls |-> 0, batches |-> <<>>,
            watermark |-> FirstWatermark, presented |-> <<>>, carried |-> <<>>]

\* get_streaming_events(): where the generator is, its max_notifications_returned
\* (given or None, and the number), the batches it yielded, and whether the service
\* holds error_subscription_ids.
NoMax == [given |-> FALSE, n |-> 0]
MaxArgs == {NoMax} \cup {[given |-> TRUE, n |-> k] : k \in 0..MaxBatches}
NoStGen == [st |-> "unborn", max |-> NoMax, i |-> 0, error_subscription_ids |-> FALSE]

EventsIdle ==
    /\ evGen = NoEvGen
    /\ stGen = NoStGen

\* A loop that never breaks.
BreakNever(more_events) == FALSE

\* `if not notification.more_events: break`
Break(more_events) == ~more_events

\* `svc.get(subscription_id=subscription_id, watermark=watermark)`: the argument of
\* get_events(), which the loop does not assign.
PresentedWatermark(gen) == gen.watermark

\* folder.get_events(subscription_id, watermark): the generator is made.
EvCall ==
    /\ evGen.st = "unborn"
    /\ evGen' = [evGen EXCEPT !.st = "created"]
    /\ UNCHANGED stGen

\* next(generator): from the top, or from the yield. GetEvents answers a batch with
\* more_events set, a batch with more_events unset, or an error.
EvNext ==
    /\ evGen.st \in {"created", "suspended"}
    /\ IF evGen.st = "suspended" /\ Break(evGen.batches[Len(evGen.batches)])
       THEN evGen' = [evGen EXCEPT !.st = "exhausted", !.nexts = @ + 1]
       ELSE /\ Len(evGen.batches) < MaxBatches
            /\ \E out \in {"more", "last", "error"} :
                 IF out = "error"
                 THEN evGen' = [evGen EXCEPT !.st = "raised", !.nexts = @ + 1, !.calls = @ + 1,
                                            !.presented = Append(@, PresentedWatermark(evGen))]
                 ELSE /\ out = "more" => Len(evGen.batches) + 1 < MaxBatches
                      /\ evGen' = [evGen EXCEPT !.st = "suspended", !.nexts = @ + 1,
                                                !.calls = @ + 1,
                                                !.batches = Append(@, out = "more"),
                                                !.presented =
                                                    Append(@, PresentedWatermark(evGen)),
                                                !.carried =
                                                    Append(@, FirstWatermark + Len(@) + 1)]
    /\ UNCHANGED stGen

\* The consumer stops early.
EvClose ==
    /\ evGen.st \in {"created", "suspended"}
    /\ evGen' = [evGen EXCEPT !.st = "closed"]
    /\ UNCHANGED stGen

\* A bound that is never reached.
ReachedBoundNever(max, i) == FALSE

\* `if max_notifications_returned and i >= max_notifications_returned`
ReachedBound(max, i) == max.given /\ max.n # 0 /\ i >= max.n

\* `if svc.error_subscription_ids: raise ErrorInvalidSubscription(...)`
StreamEnded(gen, error_subscription_ids) ==
    [gen EXCEPT !.st = IF error_subscription_ids THEN "ErrorInvalidSubscription"
                       ELSE "exhausted",
                !.error_subscription_ids = error_subscription_ids]

\* folder.get_streaming_events(subscription_id, max_notifications_returned=max)
StCall(max) ==
    /\ stGen.st = "unborn"
    /\ stGen' = [stGen EXCEPT !.st = "created", !.max = max]
    /\ UNCHANGED evGen

\* next(generator): from the top, or from the yield. The stream answers a batch, its
\* end, or an error; while it answers, the service may come to hold erroneous ids.
StNext ==
    /\ stGen.st \in {"created", "suspended"}
    /\ IF stGen.st = "suspended" /\ ReachedBound(stGen.max, stGen.i)
       THEN stGen' = StreamEnded(stGen, stGen.error_subscription_ids)
       ELSE \E out \in {"batch", "end", "error"}, reported \in BOOLEAN :
              LET ids == stGen.error_subscription_ids \/ reported
              IN  CASE out = "batch" ->
                         /\ stGen.i < MaxBatches
                         /\ stGen' = [stGen EXCEPT !.st = "suspended", !.i = @ + 1,
                                                   !.error_subscription_ids = ids]
                    [] out = "end" -> stGen' = StreamEnded(stGen, ids)
                    [] OTHER -> stGen' = [stGen EXCEPT !.st = "raised",
                                                       !.error_subscription_ids = ids]
    /\ UNCHANGED evGen

\* The consumer stops early.
StClose ==
    /\ stGen.st \in {"created", "suspended"}
    /\ stGen' = [stGen EXCEPT !.st = "closed"]
    /\ UNCHANGED evGen

(***************************************************************************)
(* BaseFolder.wipe(): the recursion as a stack of activation records, one  *)
(* step per service call.                                                  *)
(***************************************************************************)
MaxLevel == 16

\* What wipe() never touches: the sync cursors, resolve() and the navigation calls.
otherVars == <<syncVars, resolveVars, navVars, eventVars>>

\* What a wipe() has done: service calls issued, folders it ran for, what it deleted.
WipeLog0 ==
    [nCalls |-> 0,              \* EmptyFolder, item-delete and DeleteFolder calls issued
     raised |-> FALSE,          \* a RecursionError was raised
     callsAtRaise |-> 0,        \* the calls issued when it was raised
     revisited |-> NoId,        \* the folder whose second visit raised it
     root |-> NoId,             \* the folder wipe() was called on
     depth0 |-> 0,              \* the depth of the server tree below it at the call
     visits |-> EmptyMap,       \* folder id -> runs of wipe() that passed its guards
     distParents |-> {},        \* folders that had a distinguished direct child
     protected |-> {},          \* the distinguished direct children of those
     subEmptied |-> {},         \* EmptyFolder(delete_sub_folders=True) issued for
     delIssued |-> {},          \* DeleteFolder issued for: [id, dist]
     delRefused |-> {},         \* DeleteFolder answered ErrorDeleteDistinguishedFolder
     idCleared |-> {},          \* children whose _id delete() cleared
     preKids |-> EmptyMap,      \* folder id -> its children when its wipe() started
     snap |-> EmptyMap,         \* folder id -> the children its loop iterates
     flagged |-> {},            \* the children a loop found flagged is_distinguished
     returned |-> {},           \* folders whose wipe() returned
     childlessAfter |-> {},     \* children without subfolders after their own wipe()
     lastCall |-> [step |-> "none", f |-> NoId, out |-> "none",
                   delete_sub_folders |-> FALSE, distBelow |-> FALSE]]
                                \* the last service call; for EmptyFolder its
                                \* delete_sub_folders, and whether a folder known as
                                \* distinguished was below the folder on the server

WipeIdle ==
    /\ wStatus = "idle"
    /\ wError = "none"
    /\ exc = "none"
    /\ stack = <<>>
    /\ seen = {}
    /\ wLog = WipeLog0

RECURSIVE SetToSeq(_)
SetToSeq(S) ==
    IF S = {} THEN <<>>
    ELSE LET m == CHOOSE x \in S : \A y \in S : x <= y
         IN  <<m>> \o SetToSeq(S \ {m})

\* The cache a query reads: an invalidated cache is fetched again first.
Populated(c) == IF c.valid THEN c ELSE Fetched(srvParent, knownDist)

\* root.get_children(folder) on a populated cache: the cached folders whose parent is
\* the folder; a folder that names itself as its parent has no parent.
GetChildren(c, f) == {k \in CacheIds(c) : c.map[k].parent = f /\ k # f}

\* self.children, as the sequence an iteration sees: [id, is_distinguished]
Children(c, f) ==
    LET ids == SetToSeq(GetChildren(c, f))
    IN  [n \in 1..Len(ids) |-> [id |-> ids[n], dist |-> c.map[ids[n]].dist]]

\* A check that looks at the folder's own flag instead of its children's.
HasDistinguishedSubfoldersOwnFlag(c, f) == f \in CacheIds(c) /\ c.map[f].dist

\* any(f.is_distinguished for f in self.children)
HasDistinguishedSubfolders(c, f) == \E n \in 1..Len(Children(c, f)) : Children(c, f)[n].dist

\* A folder that is never deletable.
IsDeletableNever(is_distinguished) == FALSE

\* f.is_deletable
IsDeletable(is_distinguished) == ~is_distinguished

\* A guard that never finds the folder.
NeverSeen(id, s) == FALSE

\* `if self.id in _seen`
AlreadySeen(id, s) == id \in s

\* A limit that is off by one.
TooDeepOffByOne(level) == level > MaxLevel + 1

\* `if _level > 16`
TooDeep(level) == level > MaxLevel

\* A handler that lets ErrorAccessDenied through.
CaughtByEmptyNotDenied(e) == e = "ErrorCannotEmptyFolder"

\* except (ErrorAccessDenied, ErrorCannotEmptyFolder)
CaughtByEmpty(e) == e \in {"ErrorAccessDenied", "ErrorCannotEmptyFolder"}

\* except (ErrorAccessDenied, ErrorCannotDeleteObject)
CaughtByItemDelete(e) == e \in {"ErrorAccessDenied", "ErrorCannotDeleteObject"}

\* except ErrorDeleteDistinguishedFolder
CaughtByChildDelete(e) == e = "ErrorDeleteDistinguishedFolder"

\* f.wipe(...) in the loop is in no try block: what it raises leaves the caller too.
LeavesCaller(e) == TRUE

\* What the services may answer.
EmptyFolderOutcomes(id) ==
    IF id \notin DOMAIN srvParent THEN {"ErrorFolderNotFound"}
    ELSE {"ok", "ErrorAccessDenied", "ErrorCannotEmptyFolder", "ErrorFolderNotFound"}

ItemDeleteOutcomes(id) ==
    IF id \notin DOMAIN srvParent THEN {"ErrorFolderNotFound"}
    ELSE {"ok", "ErrorAccessDenied", "ErrorCannotDeleteObject", "ErrorFolderNotFound"}

\* EmptyFolder on the server: with delete_sub_folders the folders below are gone.
SrvEmpty(parent, id, delete_sub_folders) ==
    IF delete_sub_folders THEN Drop(parent, SrvSubtree(parent, id)) ELSE parent

\* The depth of the server tree below a folder.
RECURSIVE SrvDepth(_, _)
SrvDepth(parent, S) ==
    LET kids == {c \in DOMAIN parent : parent[c] \in S}
    IN  IF kids = {} THEN 0 ELSE 1 + SrvDepth(parent, kids)

\* The log after a service call of `step` for folder f was answered `out`.
Called(log, step, f, out) ==
    [log EXCEPT !.nCalls = @ + 1,
                !.lastCall = [step |-> step, f |-> f, out |-> out,
                              delete_sub_folders |-> FALSE, distBelow |-> FALSE]]

Frame(f, level) ==
    [f |-> f, level |-> level, pc |-> "guard", has_distinguished_subfolders |-> FALSE,
     kids |-> <<>>, i |-> 1]

Top == stack[Len(stack)]
SetTop(fr) == [stack EXCEPT ![Len(stack)] = fr]
Pop == SubSeq(stack, 1, Len(stack) - 1)
At(pc) == wStatus = "running" /\ exc = "none" /\ stack # <<>> /\ Top.pc = pc

\* `raise`: the innermost call is left with the exception.
Raise(e) ==
    /\ exc' = e
    /\ stack' = Pop

\* folder.wipe() called by the user
WipeCall(f) ==
    /\ wStatus = "idle"
    /\ wStatus' = "running"
    /\ stack' = <<Frame(f, 0)>>
    /\ seen' = {}
    /\ wLog' = [wLog EXCEPT !.root = f, !.depth0 = SrvDepth(srvParent, {f})]
    /\ UNCHANGED <<srvVars, cache, lifeVars, otherVars, knownDist, wError, exc>>

\* The two guards, _seen.add(self.id) and has_distinguished_subfolders
WipeGuard ==
    /\ At("guard")
    /\ IF AlreadySeen(Top.f, seen) \/ TooDeep(Top.level)
       THEN /\ Raise("RecursionError")
            /\ wLog' = [wLog EXCEPT
                    !.raised = TRUE,
                    !.callsAtRaise = wLog.nCalls,
                    !.revisited = IF AlreadySeen(Top.f, seen) THEN Top.f ELSE NoId]
            /\ UNCHANGED <<cache, seen>>
       ELSE LET c == Populated(cache)
                has == HasDistinguishedSubfolders(c, Top.f)
                kids == Children(c, Top.f)
                n == IF Top.f \in DOMAIN wLog.visits THEN wLog.visits[Top.f] ELSE 0
            IN  /\ seen' = seen \cup {Top.f}
                /\ cache' = c
                /\ stack' = SetTop([Top EXCEPT !.pc = "empty1",
                                               !.has_distinguished_subfolders = has])
                /\ wLog' = [wLog EXCEPT
                        !.visits = Put(wLog.visits, Top.f, n + 1),
                        !.preKids = Put(wLog.preKids, Top.f, GetChildren(c, Top.f)),
                        !.distParents = IF has THEN @ \cup {Top.f} ELSE @,
                        !.protected = @ \cup {kids[k].id : k \in {j \in 1..Len(kids) : kids[j].dist}}]
                /\ UNCHANGED exc
    /\ UNCHANGED <<srvVars, lifeVars, otherVars, knownDist, wStatus, wError>>

\* self.empty(delete_type, delete_sub_folders) called by wipe(), answered `out`
WipeEmptyCall(out, delete_sub_folders, pcOk, pcCaught) ==
    /\ wLog' = [Called(wLog, "empty", Top.f, out) EXCEPT
                    !.subEmptied = IF delete_sub_folders THEN @ \cup {Top.f} ELSE @,
                    !.lastCall.delete_sub_folders = delete_sub_folders,
                    !.lastCall.distBelow = SrvSubtree(srvParent, Top.f) \cap knownDist # {}]
    /\ IF out = "ok"
       THEN /\ srvParent' = SrvEmpty(srvParent, Top.f, delete_sub_folders)
            /\ cache' = IF delete_sub_folders THEN ClearCache(cache) ELSE cache
            /\ stack' = SetTop([Top EXCEPT !.pc = pcOk])
            /\ UNCHANGED exc
       ELSE IF CaughtByEmpty(out)
       THEN /\ stack' = SetTop([Top EXCEPT !.pc = pcCaught])
            /\ UNCHANGED <<srvParent, cache, exc>>
       ELSE /\ Raise(out)
            /\ UNCHANGED <<srvParent, cache>>
    /\ UNCHANGED <<srvDist, nextId, lifeVars, otherVars, knownDist, wStatus, wError, seen>>

\* A handler that always tries empty(delete_sub_folders=False) next.
AfterFirstFailureRetry(has_distinguished_subfolders) == "empty2"

\* The handler of the first attempt: `raise` (we already tried this) is caught by the
\* inner except, which goes on to the items; otherwise the second attempt is next.
AfterFirstFailure(has_distinguished_subfolders) ==
    IF has_distinguished_subfolders THEN "items" ELSE "empty2"

\* The first attempt
WipeEmpty1 ==
    /\ At("empty1")
    /\ \E out \in EmptyFolderOutcomes(Top.f) :
        WipeEmptyCall(out, ~Top.has_distinguished_subfolders, "loop",
                      AfterFirstFailure(Top.has_distinguished_subfolders))

\* The second attempt: self.empty(delete_sub_folders=False)
WipeEmpty2 ==
    /\ At("empty2")
    /\ \E out \in EmptyFolderOutcomes(Top.f) : WipeEmptyCall(out, FALSE, "loop", "items")

\* The third attempt: self.all().delete()
WipeItems ==
    /\ At("items")
    /\ \E out \in ItemDeleteOutcomes(Top.f) :
        /\ wLog' = Called(wLog, "items", Top.f, out)
        /\ IF out = "ok" \/ CaughtByItemDelete(out)
           THEN /\ stack' = SetTop([Top EXCEPT !.pc = "loop"])
                /\ UNCHANGED exc
           ELSE Raise(out)
    /\ UNCHANGED <<srvVars, cache, lifeVars, otherVars, knownDist, wStatus, wError, seen>>

\* `for f in self.children`: the collection is resolved once, when the loop starts.
WipeLoop ==
    /\ At("loop")
    /\ LET c == Populated(cache)
           kids == Children(c, Top.f)
       IN  /\ cache' = c
           /\ stack' = SetTop([Top EXCEPT !.pc = "iter", !.kids = kids, !.i = 1])
           /\ wLog' = [wLog EXCEPT
                   !.snap = Put(wLog.snap, Top.f, GetChildren(c, Top.f)),
                   !.flagged = @ \cup {kids[k].id : k \in {j \in 1..Len(kids) : kids[j].dist}}]
    /\ UNCHANGED <<srvVars, lifeVars, otherVars, knownDist, wStatus, wError, exc, seen>>

\* f.wipe(page_size=page_size, _seen=_seen, _level=_level)
WipeRecurse ==
    /\ At("iter")
    /\ Top.i <= Len(Top.kids)
    /\ stack' = Append(SetTop([Top EXCEPT !.pc = "after"]),
                       Frame(Top.kids[Top.i].id, Top.level + 1))
    /\ UNCHANGED <<srvVars, cache, lifeVars, otherVars, knownDist, wStatus, wError, exc, seen, wLog>>

\* The loop is over: wipe() returns.
WipeReturn ==
    /\ At("iter")
    /\ Top.i > Len(Top.kids)
    /\ stack' = Pop
    /\ wLog' = [wLog EXCEPT !.returned = @ \cup {Top.f}]
    /\ wStatus' = IF Len(stack) = 1 THEN "done" ELSE wStatus
    /\ UNCHANGED <<srvVars, cache, lifeVars, otherVars, knownDist, wError, exc, seen>>

\* f.delete() of a child, DeleteFolder done: root.remove_folder(f), f._id = None
ChildDeleted(id, log) ==
    /\ srvParent' = SrvDelete(srvParent, id)
    /\ cache' = RemoveFolder(Populated(cache), id)
    /\ wLog' = [log EXCEPT !.idCleared = @ \cup {id}]

\* After the child's wipe(): delete it when it is deletable and has no subfolders.
WipeAfter ==
    /\ At("after")
    /\ LET kid == Top.kids[Top.i]
           c == Populated(cache)
           childless == GetChildren(c, kid.id) = {}
           next == SetTop([Top EXCEPT !.pc = "iter", !.i = @ + 1])
           log == [wLog EXCEPT !.childlessAfter = IF childless THEN @ \cup {kid.id} ELSE @]
       IN  IF IsDeletable(kid.dist) /\ childless
           THEN \E out \in DeleteFolderOutcomes(kid.id) :
                  LET issued == [Called(log, "delete", kid.id, out) EXCEPT
                          !.delIssued = @ \cup {[id |-> kid.id, dist |-> kid.dist]},
                          !.delRefused = IF out = "ErrorDeleteDistinguishedFolder"
                                         THEN @ \cup {kid.id} ELSE @]
                  IN  IF out = "ok"
                      THEN /\ ChildDeleted(kid.id, issued)
                           /\ stack' = next
                           /\ UNCHANGED exc
                      ELSE /\ wLog' = issued
                           /\ cache' = c
                           /\ UNCHANGED srvParent
                           /\ IF CaughtByChildDelete(out)
                              THEN stack' = next /\ UNCHANGED exc
                              ELSE Raise(out)
           ELSE /\ cache' = IF IsDeletable(kid.dist) THEN c ELSE cache
                /\ stack' = next
                /\ wLog' = log
                /\ UNCHANGED <<srvParent, exc>>
    /\ UNCHANGED <<srvDist, nextId, lifeVars, otherVars, knownDist, wStatus, wError, seen>>

\* An exception leaves the calls below the one that raised it, up to the user.
WipeUnwind ==
    /\ wStatus = "running"
    /\ exc # "none"
    /\ IF stack = <<>>
       THEN /\ wStatus' = "failed"
            /\ wError' = exc
            /\ UNCHANGED <<exc, stack>>
       ELSE IF LeavesCaller(exc)
       THEN /\ stack' = Pop
            /\ UNCHANGED <<wStatus, wError, exc>>
       ELSE /\ stack' = SetTop([Top EXCEPT !.pc = "iter", !.i = @ + 1])
            /\ exc' = "none"
            /\ UNCHANGED <<wStatus, wError>>
    /\ UNCHANGED <<srvVars, cache, lifeVars, otherVars, knownDist, seen, wLog>>

(***************************************************************************)
(* BaseFolder.empty()                                                      *)
(***************************************************************************)
\* A variant that keeps the cache whatever was deleted.
EmptiedKeepsCache(c, delete_sub_folders) == c

\* `if delete_sub_folders: self.root.clear_cache()`
Emptied(c, delete_sub_folders) == IF delete_sub_folders THEN ClearCache(c) ELSE c

Empty(o, delete_type, delete_sub_folders) ==
    LET arg == [delete_type |-> delete_type, delete_sub_folders |-> delete_sub_folders]
    IN  IF delete_type \notin DELETE_TYPE_CHOICES
        THEN /\ lastOp' = Op("empty", o, arg, "ValueError", <<>>, {}, NoId)
             /\ UNCHANGED <<srvVars, cache, objId, objCk, objParent, objDist, objClassSet>>
        ELSE \E out \in EmptyFolderOutcomes(objId[o]) :
                IF out = "ok"
                THEN /\ srvParent' = SrvEmpty(srvParent, objId[o], delete_sub_folders)
                     /\ cache' = Emptied(cache, delete_sub_folders)
                     /\ lastOp' = Op("empty", o, arg, "emptied", <<"EmptyFolder">>, {}, NoId)
                     /\ UNCHANGED <<srvDist, nextId, objId, objCk, objParent, objDist,
                                    objClassSet>>
                ELSE /\ lastOp' = Op("empty", o, arg, out, <<"EmptyFolder">>, {}, NoId)
                     /\ UNCHANGED <<srvVars, cache, objId, objCk, objParent, objDist,
                                    objClassSet>>

(***************************************************************************)
(* Tree navigation: parent, parts, walk(), glob().                         *)
(***************************************************************************)
RootId == 1         \* the Root of the hierarchy, as a key of its own cache

\* Folder names, and str.lower() on them and on pattern segments.
Names == {"A", "b"}
Lower(t) == CASE t = "A" -> "a" [] t = "B" -> "b" [] OTHER -> t

NoNav == [op |-> "none", f |-> NoId, pattern |-> <<>>, out |-> <<>>, err |-> "none",
          lookups |-> 0, cur |-> NoId, queries |-> 0]

NavIdle ==
    /\ names = EmptyMap
    /\ nav = NoNav

\* A folder without the check for a parent reference to itself.
FolderParentUnchecked(f) ==
    IF f = RootId \/ cache.map[f].parent = NoId THEN [f |-> NoId, lookups |-> 0]
    ELSE [f |-> GetFolder(cache, cache.map[f].parent), lookups |-> 1]

\* Folder.parent: [f |-> the parent or NoId, lookups |-> root.get_folder() calls made].
\* The Root has no parent.
FolderParent(f) ==
    IF f = RootId \/ cache.map[f].parent = NoId THEN [f |-> NoId, lookups |-> 0]
    ELSE IF cache.map[f].parent = f THEN [f |-> NoId, lookups |-> 0]
    ELSE [f |-> GetFolder(cache, cache.map[f].parent), lookups |-> 1]

\* The parent chain of f ends within n steps.
RECURSIVE ChainEnds(_, _)
ChainEnds(f, n) ==
    IF f = NoId THEN TRUE
    ELSE IF n = 0 THEN FALSE
    ELSE ChainEnds(FolderParent(f).f, n - 1)

FiniteChain(f) == ChainEnds(f, Cardinality(CacheIds(cache)))

RECURSIVE PartsFrom(_, _)

\* A variant that appends each ancestor instead of inserting it in front.
PartsFromAppended(parts, f) ==
    IF f = NoId THEN parts ELSE PartsFrom(parts \o <<f>>, FolderParent(f).f)

\* BaseFolder.parts, for a folder whose parent chain ends
PartsFrom(parts, f) ==
    IF f = NoId THEN parts ELSE PartsFrom(<<f>> \o parts, FolderParent(f).f)

Parts(self) == PartsFrom(<<self>>, FolderParent(self).f)

\* self.children, as the ids an iteration sees
ChildIds(f) == SetToSeq(GetChildren(cache, f))

\* BaseFolder._walk: each child, then the walk of that child
RECURSIVE Walk(_)
RECURSIVE WalkEach(_)
WalkEach(kids) ==
    IF kids = <<>> THEN <<>> ELSE <<Head(kids)>> \o Walk(Head(kids)) \o WalkEach(Tail(kids))

Walk(f) == WalkEach(ChildIds(f))

\* A pattern is the sequence of its segments and of the "/" between them.
Slash == "/"
NoTail == <<"None">>

LastSlash(pattern) ==
    LET at == {k \in 1..Len(pattern) : pattern[k] = Slash}
    IN  IF at = {} THEN 0 ELSE CHOOSE k \in at : \A j \in at : j <= k

\* pattern.rsplit('/', 1): where the pattern is split, 0 when it holds no "/"
SplitAt(pattern) == LastSlash(pattern)

\* head, tail = (split_pattern[0], None) if len(split_pattern) == 1 else split_pattern
SplitPattern(pattern) ==
    LET k == SplitAt(pattern)
    IN  IF k = 0 THEN [head |-> pattern, tail |-> NoTail]
        ELSE [head |-> SubSeq(pattern, 1, k - 1), tail |-> SubSeq(pattern, k + 1, Len(pattern))]

\* A default that is never applied.
TailAsGiven(tail) == tail

\* tail or '*'
TailOrStar(tail) == IF tail = NoTail \/ tail = <<>> THEN <<"*">> ELSE tail

\* A match that compares the name as it is written.
FnmatchCased(name, pat) ==
    /\ Len(pat) = 1
    /\ pat[1] \in {"*", "**"} \/ pat[1] = name

\* fnmatch(name.lower(), pat.lower()) for a name that holds no "/"
Fnmatch(name, pat) ==
    /\ Len(pat) = 1
    /\ pat[1] \in {"*", "**"} \/ Lower(pat[1]) = Lower(name)

Yield(out) == [out |-> out, err |-> "none"]
Fail(err) == [out |-> <<>>, err |-> err]

\* Two generators one after the other: an error ends the sequence.
Then(a, b) == IF a.err # "none" THEN a ELSE [out |-> a.out \o b.out, err |-> b.err]

\* BaseFolder._glob
RECURSIVE Glob(_, _)
RECURSIVE GlobChildren(_, _, _)
GlobChildren(kids, head, tail) ==
    IF kids = <<>> THEN Yield(<<>>)
    ELSE LET c == Head(kids)
             rest == GlobChildren(Tail(kids), head, tail)
         IN  IF ~Fnmatch(names[c], head) THEN rest
             ELSE IF tail = NoTail THEN Then(Yield(<<c>>), rest)
             ELSE Then(Glob(c, tail), rest)

Glob(self, pattern) ==
    LET head == SplitPattern(pattern).head
        tail == SplitPattern(pattern).tail
    IN  IF head = <<>>
        THEN Glob(RootId, TailOrStar(tail))
        ELSE IF head = <<"..">>
        THEN IF FolderParent(self).f = NoId THEN Fail("ValueError")
             ELSE Glob(FolderParent(self).f, TailOrStar(tail))
        ELSE IF head = <<"**">>
        THEN Yield(SelectSeq(Walk(self), LAMBDA c : Fnmatch(names[c], TailOrStar(tail))))
        ELSE GlobChildren(ChildIds(self), head, tail)

\* A comparison that ignores the case.
NameEqualNoCase(name, other) == Lower(name) = Lower(other)

\* `c.name == other`
NameEqual(name, other) == name = other

\* `for c in self.children: if c.name == other: return c`, then
\* `raise ErrorFolderNotFound`
RECURSIVE FirstNamed(_, _)
FirstNamed(kids, other) ==
    IF kids = <<>> THEN Fail("ErrorFolderNotFound")
    ELSE IF NameEqual(names[Head(kids)], other) THEN Yield(<<Head(kids)>>)
    ELSE FirstNamed(Tail(kids), other)

\* BaseFolder.__truediv__: the result, and the reads of the Root cache it makes
\* (self.parent is evaluated twice, self.children once).
TrueDiv(self, other) ==
    IF other = ".."
    THEN IF FolderParent(self).f = NoId
         THEN [res |-> Fail("ValueError"), lookups |-> FolderParent(self).lookups]
         ELSE [res |-> Yield(<<FolderParent(self).f>>),
               lookups |-> 2 * FolderParent(self).lookups]
    ELSE IF other = "."
    THEN [res |-> Yield(<<self>>), lookups |-> 0]
    ELSE [res |-> FirstNamed(ChildIds(self), other), lookups |-> 1]

\* folder / other
NavTrueDiv(f, other) ==
    /\ nav' = [NoNav EXCEPT !.op = "truediv", !.f = f, !.pattern = <<other>>,
                            !.out = TrueDiv(f, other).res.out,
                            !.err = TrueDiv(f, other).res.err,
                            !.lookups = TrueDiv(f, other).lookups]
    /\ UNCHANGED names

\* folder // other: for a name, the shallow query answers with a folder the server holds
\* below the folder, or with none (DoesNotExist).
NavFloorDiv(f, other) ==
    /\ IF other = ".."
       THEN nav' = [NoNav EXCEPT !.op = "floordiv", !.f = f, !.pattern = <<other>>,
                                 !.err = "ValueError"]
       ELSE IF other = "."
       THEN nav' = [NoNav EXCEPT !.op = "floordiv", !.f = f, !.pattern = <<other>>,
                                 !.out = <<f>>]
       ELSE \E found \in {c \in DOMAIN srvParent : srvParent[c] = f} \cup {NoId} :
              nav' = [NoNav EXCEPT !.op = "floordiv", !.f = f, !.pattern = <<other>>,
                                   !.out = IF found = NoId THEN <<>> ELSE <<found>>,
                                   !.err = IF found = NoId THEN "ErrorFolderNotFound"
                                           ELSE "none",
                                   !.queries = 1]
    /\ UNCHANGED names

\* folder.parts
NavParts(f) ==
    /\ FiniteChain(f)
    /\ nav' = [NoNav EXCEPT !.op = "parts", !.f = f, !.out = Parts(f)]
    /\ UNCHANGED names

\* folder.parts, for a folder whose parent chain does not end: the loop runs step by
\* step. `parts = [self]; f = self.parent`
NavPartsStart(f) ==
    /\ ~FiniteChain(f)
    /\ nav' = [NoNav EXCEPT !.op = "parts loop", !.f = f, !.out = <<f>>,
                            !.cur = FolderParent(f).f]
    /\ UNCHANGED names

\* `while f: parts.insert(0, f); f = f.parent`, one iteration. The model follows the
\* loop until the list holds more folders than the cache.
NavPartsLoop ==
    /\ nav.op = "parts loop"
    /\ nav.cur # NoId
    /\ Len(nav.out) <= Cardinality(CacheIds(cache))
    /\ nav' = [nav EXCEPT !.out = <<nav.cur>> \o @, !.cur = FolderParent(nav.cur).f]
    /\ UNCHANGED names

\* folder.parent
NavParent(f) ==
    /\ nav' = [NoNav EXCEPT !.op = "parent", !.f = f,
                            !.out = IF FolderParent(f).f = NoId THEN <<>>
                                    ELSE <<FolderParent(f).f>>,
                            !.lookups = FolderParent(f).lookups]
    /\ UNCHANGED names

\* folder.glob(pattern), drained
NavGlob(f, pattern) ==
    /\ nav' = [NoNav EXCEPT !.op = "glob", !.f = f, !.pattern = pattern,
                            !.out = Glob(f, pattern).out, !.err = Glob(f, pattern).err]
    /\ UNCHANGED names

(***************************************************************************)
(* wipe() on a server hierarchy: small forests, and one chain deeper than  *)
(* the recursion limit.                                                    *)
(***************************************************************************)
WipeIds == 3        \* the folders of a small forest: 1..WipeIds
DeepLen == 18       \* the folders of the chain 1 <- 2 <- ... <- DeepLen

LifeIdle ==
    /\ objId = [o \in Objs |-> NoId]
    /\ objCk = [o \in Objs |-> NoId]
    /\ objParent = [o \in Objs |-> NoId]
    /\ objDist = [o \in Objs |-> FALSE]
    /\ objClassSet = [o \in Objs |-> FALSE]
    /\ lastOp = NoOp

\* A forest on 1..n: the parent of a folder has a smaller id. Folder 1 is a top folder.
Forests(n) == {p \in [1..n -> 0..n] : \A i \in 1..n : p[i] < i}

InitWipe ==
    /\ \/ /\ srvParent \in Forests(WipeIds)
          /\ srvDist \in SUBSET (2..WipeIds)
          /\ knownDist \in SUBSET srvDist
       \/ /\ srvParent = [i \in 1..DeepLen |-> i - 1]
          /\ srvDist = {}
          /\ knownDist = {}
    /\ nextId = 0
    /\ cache = Fetched(srvParent, knownDist)
    /\ LifeIdle
    /\ WipeIdle
    /\ SyncIdle
    /\ ResolveIdle
    /\ EventsIdle
    /\ NavIdle

DoWipeCall == \E f \in {1, 2} : WipeCall(f)

NextWipe ==
    \/ DoWipeCall
    \/ WipeGuard
    \/ WipeEmpty1
    \/ WipeEmpty2
    \/ WipeItems
    \/ WipeLoop
    \/ WipeRecurse
    \/ WipeReturn
    \/ WipeAfter
    \/ WipeUnwind

SpecWipe == InitWipe /\ [][NextWipe]_vars

(***************************************************************************)
(* wipe() on a manufactured Root cache: the parent references of the       *)
(* cached folders are arbitrary, cycles included. The server holds the     *)
(* same folders, all of them top folders.                                  *)
(***************************************************************************)
CycleIds == 3       \* the folders of a manufactured cache: 1..CycleIds

Manufactured(parent, flagged) ==
    [valid |-> TRUE,
     map |-> [i \in DOMAIN parent |-> [obj |-> 0, parent |-> parent[i], dist |-> i \in flagged]]]

InitCycle ==
    /\ srvParent = [i \in 1..CycleIds |-> NoId]
    /\ srvDist = {}
    /\ knownDist = {}
    /\ nextId = 0
    /\ \E parent \in [1..CycleIds -> 0..CycleIds], flagged \in SUBSET {CycleIds} :
          cache = Manufactured(parent, flagged)
    /\ LifeIdle
    /\ WipeIdle
    /\ SyncIdle
    /\ ResolveIdle
    /\ EventsIdle
    /\ NavIdle

\* A call of wipe() runs to its end: nothing but the caller stops it.
SpecWipeCycle == InitCycle /\ [][NextWipe]_vars /\ WF_vars(NextWipe)

(***************************************************************************)
(* Claims about wipe().                                                    *)
(***************************************************************************)
WipeEnded == wStatus \in {"done", "failed"}

\* C7: wipe() of a folder that has a distinguished direct child issues no
\* EmptyFolder(delete_sub_folders=True) for that folder and no DeleteFolder for a child
\* whose is_distinguished flag is set; the distinguished child is still on the server
\* during and after the wipe.
C7_DistinguishedChildKept ==
    /\ wLog.distParents \cap wLog.subEmptied = {}
    /\ \A d \in wLog.delIssued : ~d.dist /\ d.id \notin wLog.protected
    /\ wLog.protected \subseteq DOMAIN srvParent

\* The scenario A -> {B, C}, B distinguished: the wipe of A returned, C was deleted.
C7_Witness ==
    /\ wStatus = "done"
    /\ wLog.root \in wLog.distParents
    /\ wLog.protected # {}
    /\ wLog.idCleared # {}

\* What wipe() owes a child c of a folder whose wipe() returned.
ChildRecursed(c) == c \in DOMAIN wLog.visits /\ c \in wLog.returned
ChildDueForDelete(c) == c \notin wLog.flagged /\ c \in wLog.childlessAfter
ChildDeleteIssued(c) == \E d \in wLog.delIssued : d.id = c
ChildGone(c) == c \in wLog.idCleared /\ c \notin CacheIds(cache)

\* C8 as stated: after wipe() of a folder returned, every child the folder had before
\* the wipe started has been recursed into, and every child that is not distinguished
\* and had no subfolders after its own wipe has been deleted (DeleteFolder issued, id
\* cleared, cache entry removed).
C8_Original ==
    \A f \in wLog.returned :
        /\ \A c \in wLog.preKids[f] : ChildRecursed(c)
        /\ \A c \in wLog.preKids[f] \cup wLog.snap[f] :
              ChildDueForDelete(c) => ChildDeleteIssued(c) /\ ChildGone(c)

\* C8, amended: after wipe() of a folder returned, every child in the collection its
\* loop resolved (after the folder's own empty step) has been recursed into, and for
\* every such child that is not distinguished and had no subfolders after its own wipe
\* DeleteFolder was issued; unless the server answered ErrorDeleteDistinguishedFolder,
\* the child's id is cleared and its Root cache entry removed.
C8_SnapshotChildrenWiped ==
    \A f \in wLog.returned :
        /\ f \in DOMAIN wLog.snap
        /\ \A c \in wLog.snap[f] :
            /\ ChildRecursed(c)
            /\ ChildDueForDelete(c) =>
                  /\ ChildDeleteIssued(c)
                  /\ c \in wLog.delRefused \/ ChildGone(c)

C8_Witness ==
    /\ wStatus = "done"
    /\ \E c \in wLog.snap[wLog.root] : ChildDueForDelete(c) /\ ChildGone(c)
    /\ \E c \in wLog.snap[wLog.root] : ChildDueForDelete(c) /\ c \in wLog.delRefused

\* C9 as stated: wipe() of a tree deeper than 16 levels below the wiped folder fails
\* with a recursion error, so it does not return normally.
C9_Original == ~(wStatus = "done" /\ wLog.depth0 > MaxLevel)

\* C9, amended: wipe() fails with a recursion error when its recursion reaches a
\* folder more than 16 levels below the wiped folder; no folder that deep is emptied,
\* and once the error is raised no further EmptyFolder, item-delete or DeleteFolder
\* call is issued and the wipe ends with that error. (A tree deeper than 16 is wiped
\* without error when an EmptyFolder with delete_sub_folders succeeds on the way down.)
C9_DepthGuard ==
    /\ \A n \in 1..Len(stack) : stack[n].pc # "guard" => stack[n].level <= MaxLevel
    /\ \A n \in 1..Len(stack) : stack[n].level = n - 1
    /\ wLog.raised => wLog.nCalls = wLog.callsAtRaise
    /\ wLog.raised /\ WipeEnded => wStatus = "failed" /\ wError = "RecursionError"
    /\ wLog.raised /\ wLog.revisited = NoId => wLog.nCalls >= MaxLevel + 1

C9_Witness ==
    /\ wStatus = "failed"
    /\ wError = "RecursionError"
    /\ wLog.depth0 > MaxLevel
    /\ wLog.revisited = NoId
    /\ Cardinality(DOMAIN wLog.visits) = MaxLevel + 1

\* C10: wipe() terminates on every folder graph, cyclic ones included: a folder id
\* reached a second time raises a recursion error before any service call is issued
\* for it, the wipe then ends with that error, and no folder id is emptied by two runs
\* of wipe().
C10_Safe ==
    /\ \A id \in DOMAIN wLog.visits : wLog.visits[id] <= 1
    /\ wLog.raised => wLog.nCalls = wLog.callsAtRaise
    /\ wLog.revisited # NoId => wLog.raised /\ wLog.revisited \in seen
    /\ wLog.raised /\ WipeEnded => wStatus = "failed" /\ wError = "RecursionError"
    /\ Len(stack) <= Cardinality(seen) + 1

C10_CycleGuard == []C10_Safe /\ <>WipeEnded

C10_Witness ==
    /\ wStatus = "failed"
    /\ wError = "RecursionError"
    /\ wLog.revisited # NoId
    /\ wLog.nCalls > 0

\* C11 as stated: no ErrorAccessDenied of an empty or delete step leaves wipe().
C11_Original == exc # "ErrorAccessDenied" /\ wError # "ErrorAccessDenied"

\* C11, amended: an ErrorAccessDenied answer to EmptyFolder or to the item deletion is
\* caught inside wipe() and the wipe goes on; the only ErrorAccessDenied that leaves
\* wipe() is the answer to DeleteFolder of a child in the cleanup, which ends the wipe.
C11_AccessDeniedCaught ==
    /\ (exc = "ErrorAccessDenied" \/ wError = "ErrorAccessDenied") =>
          wLog.lastCall.step = "delete" /\ wLog.lastCall.out = "ErrorAccessDenied"
    /\ (wLog.lastCall.out = "ErrorAccessDenied" /\ wLog.lastCall.step \in {"empty", "items"}) =>
          /\ exc \in {"none", "RecursionError"}
          /\ (exc = "none" /\ wStatus # "failed") =>
                \/ wLog.lastCall.f \in wLog.returned
                \/ \E n \in 1..Len(stack) :
                      stack[n].f = wLog.lastCall.f /\ stack[n].pc \notin {"guard", "empty1"}
    /\ (wLog.lastCall.out = "ErrorAccessDenied" /\ wLog.lastCall.step = "delete") =>
          exc = "ErrorAccessDenied" \/ wStatus = "failed"

\* The item deletion of a child was denied after its EmptyFolder calls had failed;
\* the child's wipe() and the wipe() of the folder above it returned.
C11_Witness ==
    /\ wStatus = "done"
    /\ wLog.lastCall.step = "items"
    /\ wLog.lastCall.out = "ErrorAccessDenied"
    /\ wLog.lastCall.f # wLog.root
    /\ {wLog.lastCall.f, wLog.root} \subseteq wLog.returned

(***************************************************************************)
(* The mutation protocol: local Folder instances of one Root.              *)
(***************************************************************************)
Init ==
    /\ srvParent = InitSrvParent
    /\ srvDist = {1}
    /\ nextId = InitFolders + 1
    /\ cache = Fetched(InitSrvParent, {1})
    /\ objId = [o \in Objs |-> NoId]
    /\ objCk = [o \in Objs |-> NoId]
    /\ objParent = [o \in Objs |-> IF o - 1 <= InitFolders THEN o - 1 ELSE InitFolders]
    /\ objDist = [o \in Objs |-> FALSE]
    /\ objClassSet = [o \in Objs |-> o % 2 = 1]
    /\ lastOp = NoOp
    /\ knownDist = {1}
    /\ WipeIdle
    /\ SyncIdle
    /\ ResolveIdle
    /\ EventsIdle
    /\ NavIdle

DoSave ==
    /\ \E o \in Objs, uf \in UpdateFieldArgs : Save(o, uf)
    /\ UNCHANGED <<wipeVars, otherVars>>

DoDelete ==
    /\ \E o \in Objs, dt \in DeleteTypeArgs : Delete(o, dt)
    /\ UNCHANGED <<wipeVars, otherVars>>

Next == DoSave \/ DoDelete

Spec == Init /\ [][Next]_vars

\* A step that issues EmptyFolder or the deletion of the items.
TierStep ==
    /\ wLog'.nCalls = wLog.nCalls + 1
    /\ wLog'.lastCall.step \in {"empty", "items"}

\* An answer the handlers of the tiers catch.
TierFailure(out) == out \in {"ErrorAccessDenied", "ErrorCannotEmptyFolder"}

\* C25: for each folder wipe() visits, the attempts come in this order and stop at
\* the first success. The first call for the folder is EmptyFolder with
\* delete_sub_folders = no direct child is flagged distinguished. A second EmptyFolder
\* is issued only with delete_sub_folders=False, and only right after the first one,
\* issued with True, failed with access-denied or cannot-empty. The deletion of the
\* items is issued only right after an EmptyFolder with delete_sub_folders=False failed
\* that way. A folder is visited once, so it gets at most two EmptyFolder calls and at
\* most one with delete_sub_folders=False.
C25_TierOrder ==
    [][TierStep =>
        LET call == wLog'.lastCall
            prev == wLog.lastCall
        IN  /\ call.f = Top.f
            /\ wLog.visits[Top.f] = 1
            /\ Top.pc \in {"empty1", "empty2", "items"}
            /\ Top.pc = "empty1" =>
                  /\ call.step = "empty"
                  /\ call.delete_sub_folders = ~HasDistinguishedSubfolders(cache, Top.f)
                  /\ prev.f # Top.f
            /\ Top.pc = "empty2" =>
                  /\ call.step = "empty"
                  /\ ~call.delete_sub_folders
                  /\ prev.step = "empty" /\ prev.f = Top.f
                  /\ prev.delete_sub_folders /\ TierFailure(prev.out)
            /\ Top.pc = "items" =>
                  /\ call.step = "items"
                  /\ prev.step = "empty" /\ prev.f = Top.f
                  /\ ~prev.delete_sub_folders /\ TierFailure(prev.out)
            /\ call.out = "ok" => stack'[Len(stack)].pc = "loop"]_vars

\* The three attempts were made for a child of the wiped folder: EmptyFolder twice and
\* the deletion of the items, which succeeded.
C25_Witness ==
    /\ wLog.nCalls >= 4
    /\ wLog.lastCall.step = "items"
    /\ wLog.lastCall.out = "ok"
    /\ wLog.lastCall.f # wLog.root
    /\ wLog.lastCall.f \notin wLog.distParents
    /\ wLog.lastCall.f \in wLog.subEmptied

\* C26 as stated: wipe() never issues EmptyFolder with delete_sub_folders=True for a
\* folder that has a distinguished folder below it, and every folder known as
\* distinguished is still on the server during and after the wipe.
C26_Original ==
    /\ ~(/\ wLog.lastCall.step = "empty"
          /\ wLog.lastCall.delete_sub_folders
          /\ wLog.lastCall.distBelow)
    /\ knownDist \subseteq DOMAIN srvParent

(***************************************************************************)
(* Claims about save() and delete().                                       *)
(***************************************************************************)
\* A step that is a call of save() on a transient folder that reached CreateFolder.
CreateStep ==
    /\ lastOp'.op = "save"
    /\ objId[lastOp'.obj] = NoId
    /\ lastOp'.calls = <<"CreateFolder">>

\* C1: a save() of a transient folder whose CreateFolder succeeds leaves the folder
\* with the id the server returned, not null, and the Root cache with an entry for that
\* id; when CreateFolder fails the id stays null and the cache is unchanged.
C1_SaveCreates ==
    [][CreateStep =>
        IF lastOp'.res = "created"
        THEN /\ objId'[lastOp'.obj] # NoId
             /\ objId'[lastOp'.obj] = lastOp'.rid
             /\ lastOp'.rid \in CacheIds(cache')
             /\ cache'.map[lastOp'.rid].obj = lastOp'.obj
        ELSE /\ objId'[lastOp'.obj] = NoId
             /\ cache' = cache]_vars

C1_Witness ==
    /\ lastOp.op = "save"
    /\ lastOp.res = "created"
    /\ objId[lastOp.obj] = lastOp.rid
    /\ lastOp.rid \in CacheIds(cache)

\* A step that is a call of delete() on a persisted folder that reached DeleteFolder.
DeleteStep ==
    /\ lastOp'.op = "delete"
    /\ objId[lastOp'.obj] # NoId
    /\ lastOp'.calls = <<"DeleteFolder">>

\* C2: a delete() of a persisted folder whose DeleteFolder succeeds leaves the folder's
\* id null and the Root cache without an entry for the id the folder had; when
\* DeleteFolder fails the id and the cache are unchanged.
C2_DeleteDetaches ==
    [][DeleteStep =>
        IF lastOp'.res = "deleted"
        THEN /\ objId'[lastOp'.obj] = NoId
             /\ objId[lastOp'.obj] \in CacheIds(cache)
             /\ objId[lastOp'.obj] \notin CacheIds(cache')
        ELSE /\ objId'[lastOp'.obj] = objId[lastOp'.obj]
             /\ cache' = cache]_vars

C2_Witness ==
    /\ lastOp.op = "delete"
    /\ lastOp.res = "deleted"
    /\ objId[lastOp.obj] = NoId
    /\ \E o \in Objs : objId[o] # NoId

\* C3: save(update_fields) with a non-empty update_fields on a transient folder fails
\* with a precondition error whatever the fields are, issues no service call and
\* leaves the id null, the Root cache and the server unchanged.
C3_TransientUpdateFieldsRejected ==
    [][(/\ lastOp'.op = "save"
        /\ objId[lastOp'.obj] = NoId
        /\ lastOp'.arg # {})
       => /\ lastOp'.res = "ValueError"
          /\ lastOp'.calls = <<>>
          /\ objId' = objId
          /\ cache' = cache
          /\ srvVars' = srvVars]_vars

C3_Witness ==
    /\ lastOp.op = "save"
    /\ lastOp.arg = {"name"}
    /\ lastOp.res = "ValueError"
    /\ lastOp.calls = <<>>
    /\ objId[lastOp.obj] = NoId

\* A step that is a call of save() on a persisted folder that UpdateFolder answered.
UpdateStep ==
    /\ lastOp'.op = "save"
    /\ objId[lastOp'.obj] # NoId
    /\ lastOp'.rid # NoId

\* C22: a save() of a persisted folder issues exactly one UpdateFolder call. When the
\* returned id equals the folder's id, the folder carries the returned changekey
\* afterwards (also when it equals the one it had), the Root cache holds the folder
\* under its id and the id is kept. When the returned id differs, the call fails with
\* ValueError and the id, the changekey and the Root cache are unchanged.
C22_SaveUpdates ==
    [][(lastOp'.op = "save" /\ objId[lastOp'.obj] # NoId) =>
        /\ lastOp'.calls = <<"UpdateFolder">>
        /\ UpdateStep =>
              IF lastOp'.rid = objId[lastOp'.obj]
              THEN /\ lastOp'.res = "updated"
                   /\ objCk'[lastOp'.obj] = lastOp'.rck
                   /\ objId'[lastOp'.obj] = objId[lastOp'.obj]
                   /\ objId[lastOp'.obj] \in CacheIds(cache')
                   /\ cache'.map[objId[lastOp'.obj]].obj = lastOp'.obj
              ELSE /\ lastOp'.res = "ValueError"
                   /\ objId' = objId
                   /\ objCk' = objCk
                   /\ cache' = cache]_vars

\* An update was answered with the folder's id: the folder carries the returned
\* changekey and the cache holds the folder under its id.
C22_Witness ==
    /\ lastOp.op = "save"
    /\ lastOp.res = "updated"
    /\ lastOp.calls = <<"UpdateFolder">>
    /\ lastOp.rid = objId[lastOp.obj]
    /\ objCk[lastOp.obj] = lastOp.rck
    /\ cache.map[lastOp.rid].obj = lastOp.obj

\* The Root cache holds the instance o under the id i.
CachedUnder(o, i) == i \in CacheIds(cache) /\ cache.map[i].obj = o

\* Between calls: an instance has an id exactly when the cache holds it under that id.
IdIffCached ==
    \A o \in Objs :
        /\ objId[o] # NoId => CachedUnder(o, objId[o])
        /\ \A i \in CacheIds(cache) : CachedUnder(o, i) => objId[o] = i

\* A call: an id appears only by a save() that created the folder, disappears only by
\* a delete() that deleted it, never turns into another id, and a call that failed
\* leaves the ids and the cache as they were.
LifecycleStep ==
    /\ \A o \in Objs :
          /\ (objId[o] = NoId /\ objId'[o] # NoId) =>
                lastOp'.op = "save" /\ lastOp'.obj = o /\ lastOp'.res = "created"
          /\ (objId[o] # NoId /\ objId'[o] = NoId) =>
                lastOp'.op = "delete" /\ lastOp'.obj = o /\ lastOp'.res = "deleted"
          /\ (objId[o] # NoId /\ objId'[o] # NoId) => objId'[o] = objId[o]
    /\ lastOp'.res \notin {"created", "updated", "deleted"} =>
          objId' = objId /\ cache' = cache

\* C29: across any sequence of save() and delete() calls on locally created folders,
\* each service call succeeding or failing, a folder instance has a non-null id between
\* calls if and only if the Root cache holds that instance under that id; the id
\* appears only by a successful save(), is cleared only by a successful delete(), and a
\* failed call changes neither the id nor the cache.
C29_IdIffCached == []IdIffCached /\ [][LifecycleStep]_vars

\* A delete() failed on a persisted folder after both folders had been created, the
\* other one being detached by now.
C29_Witness ==
    /\ lastOp.op = "delete"
    /\ lastOp.res = "ErrorAccessDenied"
    /\ CachedUnder(lastOp.obj, objId[lastOp.obj])
    /\ nextId >= InitFolders + 3
    /\ \E o \in Objs : objId[o] = NoId

(***************************************************************************)
(* The sync generators of one folder.                                      *)
(***************************************************************************)
InitSync ==
    /\ srvParent = InitSrvParent
    /\ srvDist = {}
    /\ knownDist = {}
    /\ nextId = 0
    /\ cache = Fetched(InitSrvParent, {})
    /\ LifeIdle
    /\ WipeIdle
    /\ item_sync_state \in {None, "S1"}
    /\ folder_sync_state = None
    /\ gens = [g \in Gens |-> NoGen]
    /\ hgen = NoGen
    /\ lastSync = NoSyncEvent
    /\ ResolveIdle
    /\ EventsIdle
    /\ NavIdle

notSyncVars == <<srvVars, cache, lifeVars, wipeVars, resolveVars, navVars, eventVars>>

DoSyncCall ==
    /\ \E g \in Gens, sync_state \in SyncStateArgs : SyncCall(g, sync_state)
    /\ UNCHANGED notSyncVars

DoSyncNext ==
    /\ \E g \in Gens, out \in {"change", "SyncCompleted", "error", "end"},
          new_state \in ServerStates : SyncNext(g, out, new_state)
    /\ UNCHANGED notSyncVars

DoSyncClose ==
    /\ \E g \in Gens : SyncClose(g)
    /\ UNCHANGED notSyncVars

NextSync == DoSyncCall \/ DoSyncNext \/ DoSyncClose

SpecSync == InitSync /\ [][NextSync]_vars

(***************************************************************************)
(* resolve() on every short sequence the query layer can yield.            *)
(***************************************************************************)
InitResolve ==
    /\ srvParent = InitSrvParent
    /\ srvDist = {}
    /\ knownDist = {}
    /\ nextId = 0
    /\ cache = Fetched(InitSrvParent, {})
    /\ LifeIdle
    /\ WipeIdle
    /\ SyncIdle
    /\ rFolders \in UNION {[1..n -> Results] : n \in 0..MaxResults}
    /\ rCls \in FolderClasses
    /\ rResult = [how |-> "none", what |-> "none"]
    /\ NavIdle
    /\ EventsIdle

DoResolve ==
    /\ rResult.how = "none"
    /\ rResult' = Resolve(rCls, rFolders)
    /\ UNCHANGED <<srvVars, cache, lifeVars, wipeVars, syncVars, navVars, eventVars, rFolders,
                   rCls>>

NextResolve == DoResolve

SpecResolve == InitResolve /\ [][NextResolve]_vars

(***************************************************************************)
(* Claims about resolve().                                                 *)
(***************************************************************************)
Resolved == rResult.how # "none"

\* resolve() returned the one folder the query layer yielded.
ReturnedTheFolder ==
    /\ rResult.how = "return"
    /\ rResult.what = rFolders[1].value
    /\ rResult.what = rCls

Raised(what) == rResult = [how |-> "raise", what |-> what]

\* C4: resolve() returns a folder only when the query layer yields exactly one result
\* and that result is a folder of the class resolve() was called on. No result raises
\* ErrorFolderNotFound, more than one result raises the internal-invariant error, a
\* single exception object is raised as it is, and a single folder of another class
\* raises the type-contract error.
C4_ResolveOutcome ==
    Resolved =>
        /\ rResult.how = "return" =>
              /\ Len(rFolders) = 1
              /\ rFolders[1].kind = "folder"
              /\ ReturnedTheFolder
        /\ Len(rFolders) = 0 => Raised("ErrorFolderNotFound")
        /\ Len(rFolders) > 1 => Raised("ValueError: Expected result length 1")
        /\ (Len(rFolders) = 1 /\ rFolders[1].kind = "exception") => Raised(rFolders[1].value)
        /\ (Len(rFolders) = 1 /\ rFolders[1].kind = "folder" /\ rFolders[1].value # rCls) =>
              Raised("ValueError: Expected folder to be an instance")
        /\ (Len(rFolders) = 1 /\ rFolders[1].kind = "folder" /\ rFolders[1].value = rCls) =>
              ReturnedTheFolder

\* One folder of another class was yielded and resolve() has raised.
C4_Witness ==
    /\ Resolved
    /\ Len(rFolders) = 1
    /\ rFolders[1].kind = "folder"
    /\ rFolders[1].value # rCls
    /\ rResult.how = "raise"

(***************************************************************************)
(* Claims about sync_items().                                              *)
(***************************************************************************)
\* This step is a step of generator g.
StepOf(g) == gens'[g] # gens[g]

\* This step ran the body of g from its top.
StartStep(g) == gens[g].st = "created" /\ lastSync'.g = g /\ lastSync'.asked # Unasked

\* C5: the step of a sync_items() generator that receives the completion signal stores
\* the signalled state as item_sync_state and ends the generator without an error;
\* every other step (the call, a change, an early stop, an error, a plain end) leaves
\* item_sync_state as it was.
C5_CompletionStoresState ==
    [][\A g \in Gens :
          StepOf(g) =>
              /\ lastSync'.g = g
              /\ IF lastSync'.event = "SyncCompleted"
                 THEN /\ item_sync_state' = lastSync'.cursor
                      /\ gens'[g].st = "exhausted"
                 ELSE item_sync_state' = item_sync_state]_vars

\* One generator was closed early; the other has been drained and completed with "S2".
C5_Witness ==
    /\ gens[1].st = "closed"
    /\ gens[2].st = "exhausted"
    /\ lastSync.g = 2
    /\ lastSync.event = "SyncCompleted"
    /\ lastSync.cursor = "S2"
    /\ lastSync.asked = Unasked
    /\ item_sync_state = "S2"

GlobIds == 4        \* the Root and the folders below it: 1..GlobIds
MaxSegs == 3        \* segments of a pattern

Segs == {"a", "B", "*", "**", ".."}

\* The segments of s with a "/" between them.
Joined(s) ==
    [k \in 1..(2 * Len(s) - 1) |-> IF k % 2 = 1 THEN s[(k + 1) \div 2] ELSE Slash]

RelPatterns(n) == UNION {{Joined(s) : s \in [1..m -> Segs]} : m \in 1..n}
Patterns == RelPatterns(MaxSegs) \cup {<<Slash>> \o q : q \in {<<>>} \cup RelPatterns(MaxSegs - 1)}

\* Hierarchies: folder 1 is the Root, every other folder lies below a folder made
\* before it.
Hierarchies(n) == {q \in [1..n -> 0..n] : q[1] = NoId /\ \A i \in 2..n : q[i] \in 1..(i - 1)}

InitGlob ==
    /\ srvParent \in Hierarchies(GlobIds)
    /\ srvDist = {}
    /\ knownDist = {}
    /\ nextId = 0
    /\ cache = Fetched(srvParent, {})
    /\ LifeIdle
    /\ WipeIdle
    /\ SyncIdle
    /\ ResolveIdle
    /\ EventsIdle
    /\ \E nm \in [2..GlobIds -> Names] :
          names = [i \in 1..GlobIds |-> IF i = RootId THEN "root" ELSE nm[i]]
    /\ nav = NoNav

notNavVars == <<srvVars, cache, lifeVars, wipeVars, syncVars, resolveVars, eventVars>>

DoGlob ==
    /\ nav.op = "none"
    /\ \E f \in 1..GlobIds, pattern \in Patterns : NavGlob(f, pattern)
    /\ UNCHANGED notNavVars

\* The right operands of / and // tried: ".", "..", and names in either case.
DivArgs == {".", "..", "A", "a", "b"}

DoTrueDiv ==
    /\ nav.op = "none"
    /\ \E f \in 1..GlobIds, other \in DivArgs : NavTrueDiv(f, other)
    /\ UNCHANGED notNavVars

DoFloorDiv ==
    /\ nav.op = "none"
    /\ \E f \in 1..GlobIds, other \in DivArgs : NavFloorDiv(f, other)
    /\ UNCHANGED notNavVars

NextGlob == DoGlob \/ DoTrueDiv \/ DoFloorDiv

SpecGlob == InitGlob /\ [][NextGlob]_vars

(***************************************************************************)
(* Claims about glob().                                                    *)
(***************************************************************************)
Globbed == nav.op = "glob"

\* The name of folder c matches the one segment X, whatever the case.
NameMatches(c, X) == X \in {"*", "**"} \/ Lower(X) = Lower(names[c])

\* The segments of a pattern that holds plain names only, or <<>> otherwise.
PlainNames(pattern) ==
    IF /\ Len(pattern) % 2 = 1
       /\ \A k \in 1..Len(pattern) :
            IF k % 2 = 1 THEN pattern[k] \in {"a", "B"} ELSE pattern[k] = Slash
    THEN [k \in 1..((Len(pattern) + 1) \div 2) |-> pattern[2 * k - 1]]
    ELSE <<>>

\* The children of the folders fs, in order, whose name matches X.
RECURSIVE ChildrenNamed(_, _)
ChildrenNamed(fs, X) ==
    IF fs = <<>> THEN <<>>
    ELSE SelectSeq(ChildIds(Head(fs)), LAMBDA c : NameMatches(c, X)) \o ChildrenNamed(Tail(fs), X)

\* One tree level down per segment.
RECURSIVE Descend(_, _)
Descend(fs, segs) ==
    IF segs = <<>> THEN fs ELSE Descend(ChildrenNamed(fs, Head(segs)), Tail(segs))

\* The walks of the folders fs, one after the other, each with or without its top.
RECURSIVE Subtrees(_, _)
Subtrees(fs, withTop) ==
    IF fs = <<>> THEN <<>>
    ELSE (IF withTop THEN <<Head(fs)>> ELSE <<>>) \o Walk(Head(fs)) \o Subtrees(Tail(fs), withTop)

\* C12: glob('**/X') returns exactly the folders of walk() whose name matches X
\* case-insensitively, in walk order, and raises nothing.
C12_GlobStarStarIsFilteredWalk ==
    (Globbed /\ Len(nav.pattern) = 3 /\ nav.pattern[1] = "**" /\ nav.pattern[2] = Slash) =>
        /\ nav.out = SelectSeq(Walk(nav.f), LAMBDA c : NameMatches(c, nav.pattern[3]))
        /\ nav.err = "none"

\* '**/a' on a Root with a folder named "A" two levels down: it is found.
C12_Witness ==
    /\ Globbed
    /\ nav.f = RootId
    /\ nav.pattern = <<"**", Slash, "a">>
    /\ \E n \in 1..Len(nav.out) : names[nav.out[n]] = "A" /\ srvParent[nav.out[n]] # RootId
    /\ \E c \in 2..GlobIds : names[c] = "b"

\* C13: glob of plain name segments separated by '/' descends one tree level per
\* segment, for two segments and for three.
C13_Original ==
    (Globbed /\ Len(PlainNames(nav.pattern)) \in {2, 3}) =>
        /\ nav.out = Descend(<<nav.f>>, PlainNames(nav.pattern))
        /\ nav.err = "none"

\* C14, amended: glob('X/**') yields, for each child matching X in turn, every folder
\* of that child's subtree in pre-order; the child itself is not yielded.
C14_GlobNameStarStar ==
    (Globbed /\ Len(nav.pattern) = 3 /\ nav.pattern[1] \in {"a", "B"} /\ nav.pattern[2] = Slash
        /\ nav.pattern[3] = "**") =>
        /\ nav.out = Subtrees(ChildrenNamed(<<nav.f>>, nav.pattern[1]), FALSE)
        /\ nav.err = "none"

\* C14 as stated: glob('X/**') yields the folder matching X itself, then its subtree.
C14_Original ==
    (Globbed /\ Len(nav.pattern) = 3 /\ nav.pattern[1] \in {"a", "B"} /\ nav.pattern[2] = Slash
        /\ nav.pattern[3] = "**") =>
        nav.out = Subtrees(ChildrenNamed(<<nav.f>>, nav.pattern[1]), TRUE)

\* The scenario root -> A -> {B, C}: root.glob('A/**') has yielded B and C.
C14_Witness ==
    /\ Globbed
    /\ nav.f = RootId
    /\ srvParent = <<NoId, 1, 2, 2>>
    /\ names[2] = "A"
    /\ nav.pattern = <<"a", Slash, "**">>
    /\ nav.out = <<3, 4>>

\* C15: f.glob('/' + p) equals root.glob(p), and root.glob('*') when p is empty, for
\* any number of segments in p.
C15_Original ==
    (Globbed /\ nav.pattern # <<>> /\ nav.pattern[1] = Slash) =>
        LET rest == SubSeq(nav.pattern, 2, Len(nav.pattern))
            atRoot == Glob(RootId, IF rest = <<>> THEN <<"*">> ELSE rest)
        IN  nav.out = atRoot.out /\ nav.err = atRoot.err

(***************************************************************************)
(* parent and parts on a Root cache whose parent references are arbitrary: *)
(* none, a cached folder, the folder itself, or a folder not in the cache. *)
(***************************************************************************)
PartsIds == 4       \* the Root and the cached folders: 1..PartsIds

InitParts ==
    /\ srvParent = [i \in 1..PartsIds |-> NoId]
    /\ srvDist = {}
    /\ knownDist = {}
    /\ nextId = 0
    /\ \E q \in [2..PartsIds -> 0..(PartsIds + 1)] :
          cache = Manufactured([i \in 1..PartsIds |-> IF i = RootId THEN NoId ELSE q[i]], {})
    /\ LifeIdle
    /\ WipeIdle
    /\ SyncIdle
    /\ ResolveIdle
    /\ EventsIdle
    /\ names = [i \in 1..PartsIds |-> "A"]
    /\ nav = NoNav

DoParts ==
    /\ nav.op = "none"
    /\ \E f \in 1..PartsIds : NavParts(f)
    /\ UNCHANGED notNavVars

DoParent ==
    /\ nav.op = "none"
    /\ \E f \in 1..PartsIds : NavParent(f)
    /\ UNCHANGED notNavVars

DoPartsStart ==
    /\ nav.op = "none"
    /\ \E f \in 1..PartsIds : NavPartsStart(f)
    /\ UNCHANGED notNavVars

DoPartsLoop == NavPartsLoop /\ UNCHANGED notNavVars

NextParts == DoParts \/ DoParent \/ DoPartsStart \/ DoPartsLoop

SpecParts == InitParts /\ [][NextParts]_vars

(***************************************************************************)
(* Claims about parts and parent.                                          *)
(***************************************************************************)
\* C16: for a folder f whose parent chain ends, f.parts is the ancestor chain with
\* the top first: its last element is f, its first element has no parent, and each
\* element is the parent of the element after it.
C16_PartsIsAncestorChain ==
    nav.op = "parts" =>
        /\ nav.out # <<>>
        /\ nav.out[Len(nav.out)] = nav.f
        /\ FolderParent(nav.out[1]).f = NoId
        /\ \A k \in 1..(Len(nav.out) - 1) : FolderParent(nav.out[k + 1]).f = nav.out[k]

\* parts of a folder two levels below a top folder that is not the Root.
C16_Witness ==
    /\ nav.op = "parts"
    /\ Len(nav.out) = 3
    /\ nav.out[1] # RootId
    /\ nav.out[3] = nav.f

\* C17: a folder whose parent_folder_id.id is its own id has no parent: parent is None
\* and root.get_folder() is not called; no folder is returned as its own parent.
C17_SelfParentIsNone ==
    nav.op = "parent" =>
        /\ cache.map[nav.f].parent = nav.f => nav.out = <<>> /\ nav.lookups = 0
        /\ nav.out # <<nav.f>>

\* parent of a folder that names itself as its parent.
C17_Witness ==
    /\ nav.op = "parent"
    /\ nav.f # RootId
    /\ cache.map[nav.f].parent = nav.f
    /\ nav.out = <<>>

(***************************************************************************)
(* empty() on local instances of the folders of a small server forest.     *)
(***************************************************************************)
InitEmpty ==
    /\ srvParent \in Forests(WipeIds)
    /\ srvDist = {}
    /\ knownDist = {}
    /\ nextId = 0
    /\ cache = Fetched(srvParent, {})
    /\ objId \in [Objs -> 0..WipeIds]
    /\ objCk = [o \in Objs |-> IF objId[o] = NoId THEN NoId ELSE 1]
    /\ objParent = [o \in Objs |-> IF objId[o] = NoId THEN NoId ELSE srvParent[objId[o]]]
    /\ objDist = [o \in Objs |-> FALSE]
    /\ objClassSet = [o \in Objs |-> TRUE]
    /\ lastOp = NoOp
    /\ WipeIdle
    /\ SyncIdle
    /\ ResolveIdle
    /\ EventsIdle
    /\ NavIdle

DoEmpty ==
    /\ \E o \in Objs, dt \in DeleteTypeArgs, sub \in BOOLEAN : Empty(o, dt, sub)
    /\ UNCHANGED <<wipeVars, otherVars>>

NextEmpty == DoEmpty

SpecEmpty == InitEmpty /\ [][NextEmpty]_vars

\* C18: empty() with delete_sub_folders set invalidates the whole Root cache after a
\* successful EmptyFolder; with delete_sub_folders unset, or when EmptyFolder fails or
\* is not issued, the Root cache is unchanged; the ids of the folders are unchanged in
\* every case.
C18_EmptyInvalidatesCache ==
    [][lastOp'.op = "empty" =>
          /\ objId' = objId
          /\ IF lastOp'.res = "emptied" /\ lastOp'.arg.delete_sub_folders
             THEN ~cache'.valid /\ CacheIds(cache') = {}
             ELSE cache' = cache]_vars

\* A persisted folder was emptied with its subfolders: the cache is invalidated, the
\* folder keeps its id.
C18_Witness ==
    /\ lastOp.op = "empty"
    /\ lastOp.res = "emptied"
    /\ lastOp.arg.delete_sub_folders
    /\ objId[lastOp.obj] # NoId
    /\ ~cache.valid
    /\ DOMAIN srvParent # 1..WipeIds

(***************************************************************************)
(* The event generators of one folder.                                     *)
(***************************************************************************)
InitEvents ==
    /\ srvParent = InitSrvParent
    /\ srvDist = {}
    /\ knownDist = {}
    /\ nextId = 0
    /\ cache = Fetched(InitSrvParent, {})
    /\ LifeIdle
    /\ WipeIdle
    /\ SyncIdle
    /\ ResolveIdle
    /\ NavIdle
    /\ EventsIdle

notEventVars == <<srvVars, cache, lifeVars, wipeVars, syncVars, resolveVars, navVars>>

DoEvCall == EvCall /\ UNCHANGED notEventVars
DoEvNext == EvNext /\ UNCHANGED notEventVars
DoEvClose == EvClose /\ UNCHANGED notEventVars
DoStCall == (\E max \in MaxArgs : StCall(max)) /\ UNCHANGED notEventVars
DoStNext == StNext /\ UNCHANGED notEventVars
DoStClose == StClose /\ UNCHANGED notEventVars

NextEvents == DoEvCall \/ DoEvNext \/ DoEvClose \/ DoStCall \/ DoStNext \/ DoStClose

SpecEvents == InitEvents /\ [][NextEvents]_vars

(***************************************************************************)
(* Claims about get_events() and get_streaming_events().                   *)
(***************************************************************************)
\* C19: get_events() yields every batch up to and including the first one whose
\* more_events is unset, then stops: no batch follows a batch with more_events unset,
\* the sequence ends normally only after such a batch, so after at least one batch,
\* and a GetEvents call is issued only by a next() of the consumer, one call at most
\* per next(), each answered call yielding its batch.
C19_EventsUntilNoMore ==
    LET b == evGen.batches
    IN  /\ \A k \in 1..(Len(b) - 1) : b[k]
        /\ evGen.st = "exhausted" => Len(b) >= 1 /\ ~b[Len(b)]
        /\ evGen.calls <= evGen.nexts
        /\ evGen.calls = Len(b) + (IF evGen.st = "raised" THEN 1 ELSE 0)
        /\ evGen.st = "exhausted" => evGen.nexts = evGen.calls + 1
        /\ evGen.st = "created" => evGen.calls = 0

\* Three batches were yielded, the last with more_events unset, and the next next()
\* ended the sequence without a call.
C19_Witness ==
    /\ evGen.st = "exhausted"
    /\ evGen.batches = <<TRUE, TRUE, FALSE>>
    /\ evGen.calls = 3
    /\ evGen.nexts = 4

\* C27 as stated: every GetEvents call after the first presents the watermark carried
\* by the batch returned just before it.
C27_Original ==
    \A k \in 2..Len(evGen.presented) : evGen.presented[k] = evGen.carried[k - 1]

StreamOver == stGen.st \in {"exhausted", "ErrorInvalidSubscription"}

InitFolder ==
    /\ srvParent = InitSrvParent
    /\ srvDist = {1}
    /\ nextId = InitFolders + 1
    /\ cache = Fetched(InitSrvParent, {1})
    /\ objId = [o \in Objs |-> NoId]
    /\ objCk = [o \in Objs |-> NoId]
    /\ objParent = [o \in Objs |-> IF o - 1 <= InitFolders THEN o - 1 ELSE InitFolders]
    /\ objDist = [o \in Objs |-> o = 2]
    /\ objClassSet = [o \in Objs |-> o % 2 = 1]
    /\ lastOp = NoOp
    /\ knownDist = {1}
    /\ WipeIdle
    /\ item_sync_state = "S1"
    /\ folder_sync_state = "S2"
    /\ gens = [g \in Gens |-> NoGen]
    /\ hgen = NoGen
    /\ lastSync = NoSyncEvent
    /\ ResolveIdle
    /\ EventsIdle
    /\ NavIdle

\* The two instances the calls are made on: a plain one, and the one whose
\* is_distinguished flag is set.
FolderObjs == {1, 2}

\* save() without update_fields, delete() with the default delete_type
DoSavePlain ==
    /\ \E o \in FolderObjs : Save(o, {})
    /\ UNCHANGED <<wipeVars, otherVars>>

DoDeleteHard ==
    /\ \E o \in FolderObjs : Delete(o, HARD_DELETE)
    /\ UNCHANGED <<wipeVars, otherVars>>

DoRefresh ==
    /\ \E o \in FolderObjs : Refresh(o)
    /\ UNCHANGED <<wipeVars, otherVars>>

DoFolderOp ==
    /\ \E o \in FolderObjs, op \in FolderOps : FolderOp(o, op)
    /\ UNCHANGED <<wipeVars, otherVars>>

NextFolder == DoSavePlain \/ DoDeleteHard \/ DoRefresh \/ DoFolderOp

SpecFolder == InitFolder /\ [][NextFolder]_vars

(***************************************************************************)
(* Claims about refresh() and the detached folder.                         *)
(***************************************************************************)
\* The schema fields of the instance o, as a record.
FieldsOf(id, ck, parent, classSet, o) ==
    [id |-> id[o], ck |-> ck[o], parent |-> parent[o], classSet |-> classSet[o]]

\* C21: refresh() on a folder without an id fails with ValueError and issues no query.
\* On a folder with an id, when resolve() returned a folder: if its id equals the
\* folder's id, every schema field of the instance equals the resolved folder's field
\* afterwards; if not, the call fails with ValueError and every field of the instance
\* is as before. Whatever happens, is_distinguished, item_sync_state and
\* folder_sync_state are as before, and so are the fields of the other instances.
C21_Refresh ==
    [][lastOp'.op = "refresh" =>
        LET o == lastOp'.obj
            before == FieldsOf(objId, objCk, objParent, objClassSet, o)
            after == FieldsOf(objId', objCk', objParent', objClassSet', o)
        IN  /\ objId[o] = NoId =>
                  lastOp'.res = "ValueError" /\ lastOp'.calls = <<>> /\ after = before
            /\ (objId[o] # NoId /\ lastOp'.rid # NoId) =>
                  IF lastOp'.rid = objId[o]
                  THEN lastOp'.res = "refreshed" /\ after = lastOp'.fresh
                  ELSE lastOp'.res = "ValueError" /\ after = before
            /\ lastOp'.res # "refreshed" => after = before /\ cache' = cache
            /\ objDist' = objDist
            /\ item_sync_state' = item_sync_state
            /\ folder_sync_state' = folder_sync_state
            /\ \A p \in Objs \ {o} :
                  FieldsOf(objId', objCk', objParent', objClassSet', p)
                    = FieldsOf(objId, objCk, objParent, objClassSet, p)]_vars

\* A refresh() of the distinguished-flagged instance resolved a folder with the same id
\* and another parent: the fields are the resolved ones, the flag and the sync states
\* are the initial ones.
C21_Witness ==
    /\ lastOp.op = "refresh"
    /\ lastOp.res = "refreshed"
    /\ lastOp.obj = 2
    /\ lastOp.fresh.parent = NoId
    /\ FieldsOf(objId, objCk, objParent, objClassSet, 2) = lastOp.fresh
    /\ objDist[2]
    /\ item_sync_state = "S1"
    /\ folder_sync_state = "S2"

\* C23: on a folder without an id, so on one whose id delete() has cleared and no
\* later save() has set again, every id-requiring method (refresh, the subscribe
\* methods, the user-configuration methods) fails with ValueError and issues no service
\* call, leaving the folder and the cache as they were; delete() is the only step that
\* clears an id and a save() that created the folder the only one that sets it.
C23_DetachedOpsFail ==
    [][/\ (/\ lastOp'.op \in (FolderOps \ {"unsubscribe"}) \cup {"refresh"}
           /\ objId[lastOp'.obj] = NoId)
          => /\ lastOp'.res = "ValueError"
             /\ lastOp'.calls = <<>>
             /\ objId' = objId
             /\ cache' = cache
       /\ \A o \in Objs :
            /\ (objId[o] # NoId /\ objId'[o] = NoId) =>
                  lastOp'.op = "delete" /\ lastOp'.res = "deleted" /\ lastOp'.obj = o
            /\ (objId[o] = NoId /\ objId'[o] # NoId) =>
                  lastOp'.op = "save" /\ lastOp'.res = "created" /\ lastOp'.obj = o]_vars

\* A subscribe_to_pull() failed without a call on an instance that had been created
\* and deleted, the other instance never saved.
C23_Witness ==
    /\ lastOp.op = "subscribe_to_pull"
    /\ lastOp.res = "ValueError"
    /\ lastOp.calls = <<>>
    /\ objId[lastOp.obj] = NoId
    /\ nextId = InitFolders + 2
    /\ \A o \in Objs : objId[o] = NoId

(***************************************************************************)
(* One sync_items() and one sync_hierarchy() generator on one folder.      *)
(***************************************************************************)
ItemGen == 1

InitCursors ==
    /\ srvParent = InitSrvParent
    /\ srvDist = {}
    /\ knownDist = {}
    /\ nextId = 0
    /\ cache = Fetched(InitSrvParent, {})
    /\ LifeIdle
    /\ WipeIdle
    /\ item_sync_state \in {None, "S1"}
    /\ folder_sync_state \in {None, "S2"}
    /\ gens = [g \in Gens |-> NoGen]
    /\ hgen = NoGen
    /\ lastSync = NoSyncEvent
    /\ ResolveIdle
    /\ EventsIdle
    /\ NavIdle

DoItemCall ==
    /\ \E sync_state \in SyncStateArgs : SyncCall(ItemGen, sync_state)
    /\ UNCHANGED notSyncVars

DoItemNext ==
    /\ \E out \in {"change", "SyncCompleted", "error", "end"}, new_state \in ServerStates :
          SyncNext(ItemGen, out, new_state)
    /\ UNCHANGED notSyncVars

DoItemClose == SyncClose(ItemGen) /\ UNCHANGED notSyncVars

DoHSyncCall ==
    /\ \E sync_state \in SyncStateArgs : HSyncCall(sync_state)
    /\ UNCHANGED notSyncVars

DoHSyncNext ==
    /\ \E out \in {"change", "SyncCompleted", "error", "end"}, new_state \in ServerStates :
          HSyncNext(out, new_state)
    /\ UNCHANGED notSyncVars

DoHSyncClose == HSyncClose /\ UNCHANGED notSyncVars

NextCursors ==
    DoItemCall \/ DoItemNext \/ DoItemClose \/ DoHSyncCall \/ DoHSyncNext \/ DoHSyncClose

SpecCursors == InitCursors /\ [][NextCursors]_vars

\* The state a generator presents when its body starts: the supplied one, or the stored
\* cursor when the supplied one is None or empty.
Presents(supplied, stored) == IF supplied \in {None, ""} THEN stored ELSE supplied

\* C30: the item and the folder sync cursors are independent under any interleaving of
\* a sync_items() and a sync_hierarchy() sequence on one folder. A step of the item
\* sequence leaves folder_sync_state as it is and presents the supplied state or
\* item_sync_state; a step of the hierarchy sequence leaves item_sync_state as it is
\* and presents the supplied state or folder_sync_state; a cursor changes only at the
\* completion signal of its own sequence, to the signalled state, and neither changes
\* when a sequence ends with another error, ends plainly or is closed.
C30_CursorsIndependent ==
    [][/\ gens' # gens =>
            /\ folder_sync_state' = folder_sync_state
            /\ lastSync'.g = ItemGen
            /\ (gens[ItemGen].st = "created" /\ lastSync'.event # "close") =>
                  lastSync'.asked = Presents(gens[ItemGen].sync_state, item_sync_state)
       /\ hgen' # hgen =>
            /\ item_sync_state' = item_sync_state
            /\ lastSync'.g = HGen
            /\ (hgen.st = "created" /\ lastSync'.event # "close") =>
                  lastSync'.asked = Presents(hgen.sync_state, folder_sync_state)
       /\ item_sync_state' # item_sync_state =>
            /\ lastSync'.g = ItemGen
            /\ lastSync'.event = "SyncCompleted"
            /\ item_sync_state' = lastSync'.cursor
       /\ folder_sync_state' # folder_sync_state =>
            /\ lastSync'.g = HGen
            /\ lastSync'.event = "SyncCompleted"
            /\ folder_sync_state' = lastSync'.cursor
       /\ (lastSync' # lastSync /\ lastSync'.event # "SyncCompleted") =>
            /\ item_sync_state' = item_sync_state
            /\ folder_sync_state' = folder_sync_state]_vars

\* The item sequence, made before the hierarchy sequence completed with S1 and started
\* after it without a state of its own, presented the item cursor, which is not S1,
\* and completed with S2.
C30_Witness ==
    /\ hgen.st = "exhausted"
    /\ folder_sync_state = "S1"
    /\ lastSync.g = ItemGen
    /\ lastSync.event = "SyncCompleted"
    /\ lastSync.asked = None
    /\ lastSync.cursor = "S2"
    /\ item_sync_state = "S2"

\* C28 as stated: the walk up the parent pointers never visits a folder twice, so the
\* list parts builds never holds a folder twice.
C28_Original ==
    nav.op \in {"parts", "parts loop"} =>
        \A j, k \in 1..Len(nav.out) : nav.out[j] = nav.out[k] => j = k

\* The children of f whose name is exactly `other`.
ExactlyNamed(f, other) == {c \in GetChildren(cache, f) : names[c] = other}

DivResult ==
    /\ nav.op = "truediv" =>
        LET other == nav.pattern[1]
            parent == cache.map[nav.f].parent
        IN  /\ other = "." => nav.out = <<nav.f>> /\ nav.err = "none"
            /\ other = ".." =>
                  IF parent = NoId THEN nav.out = <<>> /\ nav.err = "ValueError"
                  ELSE nav.out = <<parent>> /\ nav.err = "none"
            /\ other \notin {".", ".."} =>
                  IF ExactlyNamed(nav.f, other) = {}
                  THEN nav.out = <<>> /\ nav.err = "ErrorFolderNotFound"
                  ELSE /\ Len(nav.out) = 1
                       /\ nav.out[1] \in ExactlyNamed(nav.f, other)
                       /\ nav.err = "none"
    /\ nav.op = "floordiv" =>
        LET other == nav.pattern[1]
        IN  /\ other = ".." => nav.out = <<>> /\ nav.err = "ValueError" /\ nav.queries = 0
            /\ other = "." =>
                  /\ nav.out = <<nav.f>>
                  /\ nav.err = "none"
                  /\ nav.queries = 0
                  /\ nav.lookups = 0

\* C24: folder / name returns an immediate child whose name equals name exactly and
\* fails with ErrorFolderNotFound when no child has that name; folder / '.' returns the
\* folder; folder / '..' returns the parent and fails with ValueError when the folder
\* has no parent; folder // '..' always fails; folder // '.' returns the folder without
\* a query and without a read of the Root cache. Neither operator changes the cache.
C24_DivNavigation == []DivResult /\ [][nav' # nav => cache' = cache]_vars

\* folder / 'a' failed with ErrorFolderNotFound on a folder that has a child named 'A'.
C24_Witness ==
    /\ nav.op = "truediv"
    /\ nav.pattern = <<"a">>
    /\ nav.err = "ErrorFolderNotFound"
    /\ \E c \in GetChildren(cache, nav.f) : names[c] = "A"

=============================================================================
